---------------------------- MODULE Spec2Model ----------------------------
(***************************************************************************)
(* Force-directed graph layout (zackradisic/force-directed-graph).         *)
(*                                                                         *)
(* The model covers the simulation core (src/physics.rs), the parts of    *)
(* the node and edge collections it reads and writes (src/node.rs,        *)
(* src/edge.rs) and the event handlers of State (src/main_state.rs) that  *)
(* mutate them.  The GPU side (buffers, pipelines, render) is left out:   *)
(* it only consumes the collections.                                       *)
(*                                                                         *)
(* NUMBERS.  Every coordinate of the program is an f32.  An f32 is         *)
(* modelled as a binary floating-point number <<m, e>> of value m * 2^e   *)
(* with a PREC-bit significand (the program's is 24 bits wide), the        *)
(* exponent range of f32, gradual underflow, round-to-nearest-even, the   *)
(* two infinities and one NaN.  Every arithmetic operation of the code is *)
(* one correctly rounded operation of the model, applied in the order the *)
(* code applies it.  The sign of zero and the payload of a NaN are not    *)
(* modelled.                                                               *)
(*                                                                         *)
(* LAYOUT.  A block of the code is modelled by a chain of operators, one   *)
(* per stage; the local variables of the block (dx, dist, force, ..) are   *)
(* the parameters of the operator for the statements that read them, so    *)
(* that each is computed once.  tick also returns a log of what its loops  *)
(* evaluated; the properties at the end are stated over it.                *)
(***************************************************************************)
EXTENDS Integers, Sequences, FiniteSets, TLC

----------------------------------------------------------------------------
(* Bounds of the model.                                                    *)

\* significand width of the modelled f32 (24 in the program)
PREC == 13
\* most mutating operations of a session: node and edge insertions, drag
\* steps, wheel steps and frames (State::update)
MaxOps == 4
\* TickSpec: most nodes and edges of a drawn store, most frames run on it
TickMaxNodes == 2
TickMaxEdges == 1
TickMaxFrames == 1
ApplyMaxNodes == 2
ApplyMaxEdges == 1
ApplyMaxCalls == 1
CallMaxNodes == 2
CallMaxEdges == 1
CallMaxTicks == 1

----------------------------------------------------------------------------
(* f32                                                                     *)

\* largest binary exponent of a finite f32 (f32::MAX_EXP - 1)
F32_EMAX == 127
\* smallest binary exponent of a normal f32 (f32::MIN_EXP - 1), negated
F32_EMIN_NEG == 126

\* exponent of the unit in the last place of the largest / smallest binade
EMaxQ == F32_EMAX - (PREC - 1)
EMinQ == (0 - F32_EMIN_NEG) - (PREC - 1)
\* the exponent field value that marks Inf and NaN (all ones in IEEE-754)
ESpecial == F32_EMAX + 1

Pow2[k \in 0..30] == 2^k

NaN == <<0, ESpecial>>
PosInf == <<1, ESpecial>>
NegInf == <<-1, ESpecial>>
Zero == <<0, 0>>

IsNaN(a) == a[2] = ESpecial /\ a[1] = 0
IsInf(a) == a[2] = ESpecial /\ a[1] # 0
IsFinite(a) == a[2] # ESpecial
IsZero(a) == a[2] # ESpecial /\ a[1] = 0

Abs(n) == IF n < 0 THEN 0 - n ELSE n
Sgn(n) == IF n < 0 THEN -1 ELSE IF n > 0 THEN 1 ELSE 0

RECURSIVE BitLenIn(_, _, _)
\* the L in lo..hi with 2^(L-1) <= a < 2^L, by bisection
BitLenIn(a, lo, hi) ==
  IF lo = hi THEN lo
  ELSE LET mid == (lo + hi) \div 2
       IN  IF a < Pow2[mid] THEN BitLenIn(a, lo, mid) ELSE BitLenIn(a, mid + 1, hi)

\* number of bits of a, 0 <= a < 2^30
BitLen(a) == IF a = 0 THEN 0 ELSE BitLenIn(a, 1, 30)

\* m * 2^e made canonical, m # 0 already rounded to at most PREC bits
\* (m = 2^PREC after a carry is folded into the exponent)
Pack(s, m, e) ==
  IF m = 0 THEN Zero
  ELSE IF m = Pow2[PREC] THEN
         IF e + 1 > EMaxQ THEN <<s, ESpecial>> ELSE <<s * Pow2[PREC - 1], e + 1>>
  ELSE IF e > EMaxQ THEN <<s, ESpecial>>
  ELSE <<s * m, e>>

\* The f32 nearest to M * 2^E (ties to even), |M| < 2^30.  When the exact
\* value has more bits than M holds, the caller passes at least PREC + 2
\* bits and ORs the lost bits into the lowest one (a sticky bit).
RoundF(M, E) ==
  IF M = 0 THEN Zero
  ELSE
    LET a == Abs(M)
        s == Sgn(M)
        L == BitLen(a)
        sh0 == L - PREC
        sh == IF E + sh0 < EMinQ THEN EMinQ - E ELSE sh0
    IN  IF sh <= 0 THEN Pack(s, a * Pow2[0 - sh], E + sh)
        ELSE IF sh > L THEN Zero
        ELSE LET q == a \div Pow2[sh]
                 r == a % Pow2[sh]
                 half == Pow2[sh - 1]
                 up == r > half \/ (r = half /\ q % 2 = 1)
             IN  Pack(s, IF up THEN q + 1 ELSE q, E + sh)

FromInt(n) == RoundF(n, 0)

FNeg(a) == IF IsNaN(a) THEN NaN ELSE <<0 - a[1], a[2]>>

\* a * b
FMul(a, b) ==
  IF IsNaN(a) \/ IsNaN(b) THEN NaN
  ELSE IF IsInf(a) \/ IsInf(b) THEN
         IF a[1] = 0 \/ b[1] = 0 THEN NaN
         ELSE <<Sgn(a[1]) * Sgn(b[1]), ESpecial>>
  ELSE RoundF(a[1] * b[1], a[2] + b[2])

\* a / b
FDiv(a, b) ==
  IF IsNaN(a) \/ IsNaN(b) THEN NaN
  ELSE IF IsInf(a) THEN
         IF IsInf(b) THEN NaN
         ELSE <<a[1] * (IF b[1] < 0 THEN -1 ELSE 1), ESpecial>>
  ELSE IF IsInf(b) THEN Zero
  ELSE IF b[1] = 0 THEN
         IF a[1] = 0 THEN NaN ELSE <<Sgn(a[1]), ESpecial>>
  ELSE IF a[1] = 0 THEN Zero
  ELSE LET ma == Abs(a[1])
           mb == Abs(b[1])
           k == 29 - BitLen(ma)
           A == ma * Pow2[k]
           Q == A \div mb
           st == IF A % mb = 0 THEN 0 ELSE 1
       IN  RoundF(Sgn(a[1]) * Sgn(b[1]) * (2 * Q + st), a[2] - k - b[2] - 1)

\* a + b
FAdd(a, b) ==
  IF IsNaN(a) \/ IsNaN(b) THEN NaN
  ELSE IF IsInf(a) THEN
         IF IsInf(b) /\ a[1] # b[1] THEN NaN ELSE a
  ELSE IF IsInf(b) THEN b
  ELSE IF a[1] = 0 THEN b
  ELSE IF b[1] = 0 THEN a
  ELSE LET hi == IF a[2] >= b[2] THEN a ELSE b
           lo == IF a[2] >= b[2] THEN b ELSE a
           d == hi[2] - lo[2]
           A == hi[1] * 8
           ml == Abs(lo[1])
           B == IF d <= 3 THEN ml * Pow2[3 - d]
                ELSE IF d - 3 > PREC THEN 1
                ELSE LET f == ml \div Pow2[d - 3]
                         st == IF ml % Pow2[d - 3] = 0 THEN 0 ELSE 1
                     IN  IF f % 2 = 1 THEN f ELSE f + st
       IN  RoundF(A + Sgn(lo[1]) * B, hi[2] - 3)

FSub(a, b) == FAdd(a, FNeg(b))

RECURSIVE ISqrtBits(_, _, _)
\* largest r' >= r with r'^2 <= R that adds to r only bits of weight <= 2^bit
ISqrtBits(R, r, bit) ==
  IF bit < 0 THEN r
  ELSE LET t == r + Pow2[bit]
       IN  ISqrtBits(R, IF t * t <= R THEN t ELSE r, bit - 1)

\* sqrt(a)
FSqrt(a) ==
  IF IsNaN(a) THEN NaN
  ELSE IF a[1] < 0 THEN NaN
  ELSE IF IsInf(a) THEN PosInf
  ELSE IF a[1] = 0 THEN Zero
  ELSE LET k0 == 29 - BitLen(a[1])
           k == IF (a[2] - k0) % 2 = 0 THEN k0 ELSE k0 + 1
           R == a[1] * Pow2[k]
           r == ISqrtBits(R, 0, 14)
           st == IF r * r = R THEN 0 ELSE 1
       IN  RoundF(2 * r + st, ((a[2] - k) \div 2) - 1)

\* a < b, a <= b, a >= b as f32 compares them: false when either is NaN.
\* Canonical finite values of one sign are ordered by exponent, then by
\* significand.
FLt(a, b) ==
  /\ ~IsNaN(a) /\ ~IsNaN(b)
  /\ a # b
  /\ IF IsInf(a) THEN a[1] < 0
     ELSE IF IsInf(b) THEN b[1] > 0
     ELSE IF Sgn(a[1]) # Sgn(b[1]) THEN a[1] < b[1]
     ELSE IF a[1] > 0 THEN a[2] < b[2] \/ (a[2] = b[2] /\ a[1] < b[1])
     ELSE a[2] > b[2] \/ (a[2] = b[2] /\ a[1] < b[1])
FLe(a, b) == ~IsNaN(a) /\ ~IsNaN(b) /\ (a = b \/ FLt(a, b))
FGe(a, b) == FLe(b, a)
FGt(a, b) == FLt(b, a)

----------------------------------------------------------------------------
(* Program constants                                                       *)

DEFAULT_STRENGTH == FromInt(0 - 100)
DEFAULT_MAX_DIST == FromInt(500)
DEFAULT_MIN_DIST == FromInt(200)
\* the literal 0.00001 of the spring loop, as the nearest f32
SPRING_SCALE == FDiv(FromInt(1), FromInt(100000))
One == FromInt(1)
Two == FromInt(2)
\* Node::new((50.0, 50.0), ..) in State::device_input
NODE_SIZE == <<FromInt(50), FromInt(50)>>
\* camera.width, camera.height as State::new sets them
CAMERA_WIDTH == 800
CAMERA_HEIGHT == 600
\* Camera::update_scale clamps to [0.01, 256.0]
SCALE_MIN == FDiv(FromInt(1), FromInt(100))
SCALE_MAX == FromInt(256)
\* usize::MAX, the "no node is dragged" sentinel of Physics::tick (as u32:
\* u32::MAX).  It is wider than the integers of the model and stands here
\* as the largest of them; no index of a modelled store reaches either.
USIZE_MAX == 2147483647
U32_MAX == 2147483647

----------------------------------------------------------------------------
(* Inputs the environment can deliver                                      *)

\* cursor positions (physical pixels) of WindowEvent::CursorMoved
CursorPixels == {<<400, 300>>, <<500, 300>>}
\* raw deltas of DeviceEvent::MouseMotion
MotionDeltas == {<<50, 0>>, <<0, 50>>}
\* y of WindowEvent::MouseWheel (LineDelta y, or PixelDelta y / 100)
WheelDeltas == {FDiv(FromInt(0 - 1), Two)}

----------------------------------------------------------------------------
(* Data                                                                    *)

\* 0-based indexing of a Vec
At(v, i) == v[i + 1]
InRange(v, i) == i >= 0 /\ i < Len(v)

ObjPos(o) == <<o.x, o.y, o.z>>
VecHasNaN(p) == \E c \in DOMAIN p : IsNaN(p[c])
VecFinite(p) == \A c \in DOMAIN p : IsFinite(p[c])

DragNone == <<"None", 0>>
DragNode(k) == <<"Node", k>>
DragEdgeCreation(k) == <<"EdgeCreation", k>>

MouseNone == [some |-> FALSE, x |-> Zero, y |-> Zero]
MouseSome(x, y) == [some |-> TRUE, x |-> x, y |-> y]

SetMin(S) == CHOOSE m \in S : \A n \in S : m <= n

----------------------------------------------------------------------------
(* Object (src/physics.rs)                                                 *)

Object_from_node(i, node, strength) ==
  [i |-> i, x |-> node.position[1], y |-> node.position[2],
   z |-> node.position[3], strength |-> strength]

\* Object::apply without its write of y
Object_apply_KeepsY(obj, node) ==
  [node EXCEPT !.position = <<obj.x, node.position[2], obj.z>>]

Object_apply(obj, node) ==
  [node EXCEPT !.position = <<obj.x, obj.y, obj.z>>]

Object_apply_edge(id, node, edge) ==
  IF edge.a_id = id THEN [edge EXCEPT !.a_center = node.position]
  ELSE IF edge.b_id = id THEN [edge EXCEPT !.b_center = node.position]
  ELSE edge

RECURSIVE Physics_new_from(_, _)
Physics_new_from(ns, i) ==
  IF i >= Len(ns) THEN << >>
  ELSE <<Object_from_node(i, At(ns, i), DEFAULT_STRENGTH)>>
       \o Physics_new_from(ns, i + 1)

\* Physics::new: objs (alpha is set to 1.0 beside it)
Physics_new(ns) == Physics_new_from(ns, 0)

----------------------------------------------------------------------------
(* Physics::tick, the repulsion loop                                       *)

\* (dx * dx + dy * dy + dz * dz).sqrt()
Norm(dx, dy, dz) == FSqrt(FAdd(FAdd(FMul(dx, dx), FMul(dy, dy)), FMul(dz, dz)))

Dist(p, q) == Norm(FSub(p[1], q[1]), FSub(p[2], q[2]), FSub(p[3], q[3]))

\* the cutoff test with > for >=, and without the NaN test
RepulsionSkips_Strict(dist) == FGt(dist, DEFAULT_MAX_DIST) \/ IsNaN(dist)
RepulsionSkips_NoNaNTest(dist) == FGe(dist, DEFAULT_MAX_DIST)

\* the cutoff test of the repulsion loop
RepulsionSkips(dist) == FGe(dist, DEFAULT_MAX_DIST) \/ IsNaN(dist)

\* the writes of a pair if the force were stored in the object as well
RepulseMove_KeepsForce(os, i, dx, dy, dz, force, ad) ==
  [os EXCEPT ![i + 1].x = FSub(@, FMul(FMul(force, dx), ad)),
             ![i + 1].y = FSub(@, FMul(FMul(force, dy), ad)),
             ![i + 1].z = FSub(@, FMul(FMul(force, dz), ad)),
             ![i + 1].strength = force]

\* the writes of a pair with the displacement added instead of subtracted
RepulseMove_Adds(os, i, dx, dy, dz, force, ad) ==
  [os EXCEPT ![i + 1].x = FAdd(@, FMul(FMul(force, dx), ad)),
             ![i + 1].y = FAdd(@, FMul(FMul(force, dy), ad)),
             ![i + 1].z = FAdd(@, FMul(FMul(force, dz), ad))]

\* obj.x -= force_x; obj.y -= force_y; obj.z -= force_z, with
\* force_x = force * dx * (self.alpha / dist) and ad = self.alpha / dist
RepulseMove(os, i, dx, dy, dz, force, ad) ==
  [os EXCEPT ![i + 1].x = FSub(@, FMul(FMul(force, dx), ad)),
             ![i + 1].y = FSub(@, FMul(FMul(force, dy), ad)),
             ![i + 1].z = FSub(@, FMul(FMul(force, dz), ad))]

\* the cutoff test, then force = other.strength * (self.alpha / dist)
RepulseAtDist(os, alpha, i, strength, dx, dy, dz, dist) ==
  IF RepulsionSkips(dist) THEN os
  ELSE RepulseMove(os, i, dx, dy, dz,
                   FMul(strength, FDiv(alpha, dist)), FDiv(alpha, dist))

\* the body of the inner loop for the pair (i, j), after the id test:
\* dx, dy, dz and dist, then the rest
RepulsePair(os, alpha, i, j) ==
  RepulseAtDist(os, alpha, i, At(os, j).strength,
                FSub(At(os, i).x, At(os, j).x),
                FSub(At(os, i).y, At(os, j).y),
                FSub(At(os, i).z, At(os, j).z),
                Dist(ObjPos(At(os, i)), ObjPos(At(os, j))))

\* what the repulsion loop did for one evaluated pair (instrumentation)
PairEntry(os, os2, i, j) ==
  [i |-> i, j |-> j,
   pre |-> ObjPos(At(os, i)), other |-> ObjPos(At(os, j)),
   dist |-> Dist(ObjPos(At(os, i)), ObjPos(At(os, j))),
   post |-> ObjPos(At(os2, i))]

RECURSIVE RepulsionLoop_DraggedInert(_, _, _, _, _, _)
\* the loop if the dragged node were left out as the other node j as well
RepulsionLoop_DraggedInert(r, alpha, dragging, len, i, j) ==
  IF i >= len THEN r
  ELSE IF i = dragging THEN RepulsionLoop_DraggedInert(r, alpha, dragging, len, i + 1, 0)
  ELSE IF j >= len THEN RepulsionLoop_DraggedInert(r, alpha, dragging, len, i + 1, 0)
  ELSE IF At(r.objs, i).i = At(r.objs, j).i \/ j = dragging
       THEN RepulsionLoop_DraggedInert(r, alpha, dragging, len, i, j + 1)
  ELSE LET os2 == RepulsePair(r.objs, alpha, i, j)
       IN  RepulsionLoop_DraggedInert(
             [objs |-> os2, log |-> Append(r.log, PairEntry(r.objs, os2, i, j))],
             alpha, dragging, len, i, j + 1)

RECURSIVE RepulsionLoop_Snapshot(_, _, _, _, _, _, _)
\* the loop if every other node j were read from a copy snap of the store
\* taken before the loop (a Jacobi sweep)
RepulsionLoop_Snapshot(r, snap, alpha, dragging, len, i, j) ==
  IF i >= len THEN r
  ELSE IF i = dragging THEN RepulsionLoop_Snapshot(r, snap, alpha, dragging, len, i + 1, 0)
  ELSE IF j >= len THEN RepulsionLoop_Snapshot(r, snap, alpha, dragging, len, i + 1, 0)
  ELSE IF At(r.objs, i).i = At(snap, j).i
       THEN RepulsionLoop_Snapshot(r, snap, alpha, dragging, len, i, j + 1)
  ELSE LET os1 == [r.objs EXCEPT ![j + 1] = At(snap, j)]
           os2 == [r.objs EXCEPT ![i + 1] = At(RepulsePair(os1, alpha, i, j), i)]
       IN  RepulsionLoop_Snapshot(
             [objs |-> os2, log |-> Append(r.log, PairEntry(os1, os2, i, j))],
             snap, alpha, dragging, len, i, j + 1)

RepulsionPass_Snapshot(os, alpha, dragging) ==
  RepulsionLoop_Snapshot([objs |-> os, log |-> << >>], os, alpha, dragging,
                         Len(os), 0, 0)

\* r after the pair (i, j) has taken the objects to os2
PairLogged(r, os2, i, j) ==
  [objs |-> os2, log |-> Append(r.log, PairEntry(r.objs, os2, i, j))]

RECURSIVE RepulsionLoop(_, _, _, _, _, _)
\* for i in 0..len { if i == dragging { continue } for j in 0..len { .. } }
\* r = [objs, log]: the objects so far and the pairs evaluated so far
RepulsionLoop(r, alpha, dragging, len, i, j) ==
  IF i >= len THEN r
  ELSE IF i = dragging THEN RepulsionLoop(r, alpha, dragging, len, i + 1, 0)
  ELSE IF j >= len THEN RepulsionLoop(r, alpha, dragging, len, i + 1, 0)
  ELSE IF At(r.objs, i).i = At(r.objs, j).i
       THEN RepulsionLoop(r, alpha, dragging, len, i, j + 1)
  ELSE RepulsionLoop(PairLogged(r, RepulsePair(r.objs, alpha, i, j), i, j),
                     alpha, dragging, len, i, j + 1)

RepulsionPass(os, alpha, dragging) ==
  RepulsionLoop([objs |-> os, log |-> << >>], alpha, dragging, Len(os), 0, 0)

----------------------------------------------------------------------------
(* Physics::tick, the spring loop                                          *)

\* the endpoint of edge that the visit of node reads as "b"
OtherEnd(node, edge) == IF node = edge.a_id THEN edge.b_id ELSE edge.a_id

\* the tests of a visit without the rest length
SpringSkips_NoRestLength(dist) == IsNaN(dist)

\* the two tests that end a visit without a displacement
SpringSkips(dist) == IsNaN(dist) \/ FLe(dist, DEFAULT_MIN_DIST)

\* the writes of a visit with the displacement added instead of subtracted
SpringMove_Adds(os, node, dx, dy, dz, force, dist2) ==
  [os EXCEPT ![node + 1].x = FAdd(@, FMul(FMul(force, dx), dist2)),
             ![node + 1].y = FAdd(@, FMul(FMul(force, dy), dist2)),
             ![node + 1].z = FAdd(@, FMul(FMul(force, dz), dist2))]

\* a.x -= force_x; a.y -= force_y; a.z -= force_z, with
\* force_x = (force * dx) * dist and dist2 the rescaled dist
SpringMove(os, node, dx, dy, dz, force, dist2) ==
  [os EXCEPT ![node + 1].x = FSub(@, FMul(FMul(force, dx), dist2)),
             ![node + 1].y = FSub(@, FMul(FMul(force, dy), dist2)),
             ![node + 1].z = FSub(@, FMul(FMul(force, dz), dist2))]

\* force = -a.strength * dist, on the rescaled dist
SpringForce(os, node, strength, dx, dy, dz, dist2) ==
  SpringMove(os, node, dx, dy, dz, FMul(FNeg(strength), dist2), dist2)

\* the two tests, then let dist = dist * 0.00001
SpringAtDist(os, node, strength, dx, dy, dz, dist) ==
  IF SpringSkips(dist) THEN os
  ELSE SpringForce(os, node, strength, dx, dy, dz, FMul(dist, SPRING_SCALE))

\* the body of the inner loop for node and one incident edge, all indices
\* in range: a = objs[node], b = the object at the other end
SpringVisit(os, node, edge) ==
  SpringAtDist(os, node, At(os, node).strength,
               FSub(At(os, node).x, At(os, OtherEnd(node, edge)).x),
               FSub(At(os, node).y, At(os, OtherEnd(node, edge)).y),
               FSub(At(os, node).z, At(os, OtherEnd(node, edge)).z),
               Dist(ObjPos(At(os, node)), ObjPos(At(os, OtherEnd(node, edge)))))

\* what the spring loop did for one visit (instrumentation)
VisitEntry(os, os2, node, edge_id, edge) ==
  [node |-> node, edge_id |-> edge_id, other_node |-> OtherEnd(node, edge),
   pre |-> ObjPos(At(os, node)),
   other |-> ObjPos(At(os, OtherEnd(node, edge))),
   dist |-> Dist(ObjPos(At(os, node)), ObjPos(At(os, OtherEnd(node, edge)))),
   post |-> ObjPos(At(os2, node))]

\* the slice indexings of one visit are all in range (edges[..], objs[..]);
\* otherwise the visit panics
VisitInRange(os, es, node, edge_id) ==
  /\ InRange(es, edge_id)
  /\ InRange(os, node)
  /\ InRange(os, OtherEnd(node, At(es, edge_id)))

\* r after the visit of node and edge number edge_id has taken the objects
\* to os2
VisitLogged(r, os2, node, edge_id, edge) ==
  [objs |-> os2,
   log |-> Append(r.log, VisitEntry(r.objs, os2, node, edge_id, edge)),
   ok |-> TRUE]

RECURSIVE SpringNode(_, _, _, _, _)
\* for other_id in connections { .. }, from the c-th connection on
\* r = [objs, log, ok]; ok = FALSE once an index was out of range (a panic)
SpringNode(r, es, node, conns, c) ==
  IF c > Len(conns) THEN r
  ELSE IF ~VisitInRange(r.objs, es, node, conns[c]) THEN [r EXCEPT !.ok = FALSE]
  ELSE SpringNode(VisitLogged(r, SpringVisit(r.objs, node, At(es, conns[c])),
                              node, conns[c], At(es, conns[c])),
                  es, node, conns, c + 1)

\* `dragging as u32`: the cast keeps the low 32 bits, so the sentinel
\* usize::MAX becomes u32::MAX and an index below 2^32 is kept.  (U32_MAX
\* and USIZE_MAX are the largest integer of the model: what matters is
\* that they are beyond every length and that the cast maps one to the
\* other.)
AsU32(n) == IF n = USIZE_MAX THEN U32_MAX ELSE n

\* the test of the outer loop if no key were passed over
SpringSkipsNode_Never(node, dragging) == FALSE

\* the keys the outer loop passes over: "node == dragging as u32"
SpringSkipsNode(node, dragging) == node = AsU32(dragging)

RECURSIVE SpringLoop(_, _, _, _, _)
\* for (&node, connections) in edge_map.iter(): a BTreeMap iterates its
\* keys in ascending order; keys are those still to come
SpringLoop(r, es, em, dragging, keys) ==
  IF keys = {} \/ ~r.ok THEN r
  ELSE LET node == SetMin(keys)
       IN  IF SpringSkipsNode(node, dragging)
           THEN SpringLoop(r, es, em, dragging, keys \ {node})
           ELSE SpringLoop(SpringNode(r, es, node, em[node], 1),
                           es, em, dragging, keys \ {node})

SpringPass(os, es, em, dragging) ==
  SpringLoop([objs |-> os, log |-> << >>, ok |-> TRUE], es, em, dragging, DOMAIN em)

\* the index of the dragged node if the argument were ignored
DraggingIndex_Ignored(dragging) == USIZE_MAX

\* dragging.map(|x| x as usize).unwrap_or(usize::MAX)
DraggingIndex(dragging) == IF dragging[1] = "Some" THEN dragging[2] ELSE USIZE_MAX

\* what tick leaves behind, from the results rep and spr of its two loops:
\* [objs, mid, rlog, slog, ok], the objects at return, those between the
\* two loops and the logs of the two loops
TickResult(rep, spr) ==
  [objs |-> spr.objs, mid |-> rep.objs, rlog |-> rep.log,
   slog |-> spr.log, ok |-> spr.ok]

\* the spring loop, run on what the repulsion loop left
TickSprings(rep, d, es, em) == TickResult(rep, SpringPass(rep.objs, es, em, d))

\* what tick would leave if the spring loop ran before the repulsion loop
TickRepulsionAfter(spr, alpha, d) ==
  [objs |-> RepulsionPass(spr.objs, alpha, d).objs, mid |-> spr.objs,
   rlog |-> RepulsionPass(spr.objs, alpha, d).log, slog |-> spr.log, ok |-> spr.ok]

TickLoops_SpringFirst(os, alpha, d, es, em) ==
  TickRepulsionAfter(SpringPass(os, es, em, d), alpha, d)

\* the two loops, d the index of the dragged node
TickLoops(os, alpha, d, es, em) ==
  TickSprings(RepulsionPass(os, alpha, d), d, es, em)

\* alpha_decay: (1.0 - ALPHA_MIN.powf(1.0 / 900.0)) / 100.0, which is
\* 7.6459e-5, and alpha_target, as Physics::new sets them
ALPHA_DECAY == FDiv(FromInt(5131), FromInt(67108864))
ALPHA_TARGET == Zero

\* self.alpha if the commented-out statement were the one in force:
\* self.alpha += (self.alpha_target - self.alpha) * self.alpha_decay
TickAlpha_Decays(alpha) == FAdd(alpha, FMul(FSub(ALPHA_TARGET, alpha), ALPHA_DECAY))

\* self.alpha if tick did not assign it
TickAlpha_Kept(alpha) == alpha

\* self.alpha after the first statement of tick: self.alpha = 1.0
TickAlpha(alpha) == One

\* Physics::tick(dragging, edges, edge_map) on objs os with self.alpha =
\* alpha at the call
Physics_tick(os, alpha, dragging, es, em) ==
  TickLoops(os, TickAlpha(alpha), DraggingIndex(dragging), es, em)

----------------------------------------------------------------------------
(* Physics::apply                                                          *)

RECURSIVE ApplyEdges(_, _, _, _, _)
\* node_edges.iter().for_each(|edge_id| obj.apply_edge(i, node, edge))
ApplyEdges(es, i, node, conns, c) ==
  IF c > Len(conns) THEN es
  ELSE ApplyEdges([es EXCEPT ![conns[c] + 1] = Object_apply_edge(i, node, @)],
                  i, node, conns, c + 1)

RECURSIVE ApplyLoop(_, _, _, _)
\* for (i, obj) in self.objs.iter().enumerate() { .. };  r = [nodes, edges, ok]
ApplyLoop(os, r, em, i) ==
  IF i >= Len(os) THEN r
  ELSE LET node == Object_apply(At(os, i), At(r.nodes, i))
           ns2 == [r.nodes EXCEPT ![i + 1] = node]
           es2 == IF i \in DOMAIN em
                  THEN ApplyEdges(r.edges, i, node, em[i], 1)
                  ELSE r.edges
       IN  ApplyLoop(os, [r EXCEPT !.nodes = ns2, !.edges = es2], em, i + 1)

\* the assertion if it also required a node to exist
ApplyPrecondition_NonEmpty(os, ns) == Len(ns) = Len(os) /\ Len(ns) > 0

\* the assertion if it only required a node for every object
ApplyPrecondition_AtLeast(os, ns) == Len(ns) >= Len(os)

\* assert_eq!(nodes.len(), self.objs.len())
ApplyPrecondition(os, ns) == Len(ns) = Len(os)

\* Physics::apply(nodes, edges, edge_map): [nodes, edges, ok]; ok = FALSE
\* when the assertion fails, and then nothing was written
Physics_apply(os, ns, es, em) ==
  IF ~ApplyPrecondition(os, ns) THEN [nodes |-> ns, edges |-> es, ok |-> FALSE]
  ELSE ApplyLoop(os, [nodes |-> ns, edges |-> es, ok |-> TRUE], em, 0)

----------------------------------------------------------------------------
(* Node and edge collections (src/node.rs, src/edge.rs)                    *)

\* Node::new(size, pos, ..)
Node_new(size, pos) == [size |-> size, position |-> pos]

\* Node::intersects(&self, pos)
Node_intersects(node, pos) ==
  /\ FLe(pos[1], FAdd(node.position[1], FMul(node.size[1], One)))
  /\ FGe(pos[1], FSub(node.position[1], FMul(node.size[1], One)))
  /\ FLe(pos[2], FAdd(node.position[2], FMul(node.size[2], One)))
  /\ FGe(pos[2], FSub(node.position[2], FMul(node.size[2], One)))

\* nodes.iter().enumerate().find(|(_, node)| node.intersects(&pos3)):
\* the indices that intersect; find returns the least of them
Hits(ns, pos) == {i \in 0..(Len(ns) - 1) : Node_intersects(At(ns, i), pos)}

\* the edge if node ids were counted from one
Edge_from_nodes_OneBased(a, a_id, b, b_id) ==
  [a_id |-> a_id + 1, b_id |-> b_id + 1, a_center |-> a.position, b_center |-> b.position]

\* Edge::from_nodes((a, a_id), (b, b_id), ..)
Edge_from_nodes(a, a_id, b, b_id) ==
  [a_id |-> a_id, b_id |-> b_id, a_center |-> a.position, b_center |-> b.position]

\* node_to_edge.entry(key).or_insert_with(Vec::new).push(id)
MapPush(em, key, id) ==
  IF key \in DOMAIN em THEN [em EXCEPT ![key] = Append(@, id)]
  ELSE [k \in (DOMAIN em) \cup {key} |-> IF k = key THEN <<id>> ELSE em[k]]

\* the loop body if it entered the id under a_id only
MapInsertEdge_OnlyA(em, id, edge) == MapPush(em, edge.a_id, id)

\* the body of the loop of EdgeRenderPass::new for edge number id
MapInsertEdge(em, id, edge) == MapPush(MapPush(em, edge.a_id, id), edge.b_id, id)

RECURSIVE EdgeMapFrom(_, _, _)
EdgeMapFrom(em, es, id) ==
  IF id >= Len(es) THEN em
  ELSE EdgeMapFrom(MapInsertEdge(em, id, At(es, id)), es, id + 1)

\* EdgeRenderPass::new(edges, ..): the edge_map it builds
EdgeRenderPass_new(es) == EdgeMapFrom(<< >>, es, 0)

\* EdgeRenderPass::add_edge(edge, queue).  Its body is not among the source
\* files; it is modelled from the specification's AdjacencyIndex.add: the
\* edge is appended and its id entered under both endpoints, as in new.
EdgeRenderPass_add_edge(es, em, edge) ==
  [edges |-> Append(es, edge), edge_map |-> MapInsertEdge(em, Len(es), edge)]

----------------------------------------------------------------------------
(* State (src/main_state.rs)                                               *)

VARIABLES
  nodes,            \* node_render_pass.nodes
  objs,             \* physics.objs
  alpha,            \* physics.alpha
  edges,            \* edge_render_pass.edges
  edge_map,         \* edge_render_pass.edge_map
  dragging,         \* input.dragging
  is_ctrl_pressed,  \* input.is_ctrl_pressed
  is_lalt_pressed,  \* input.is_lalt_pressed
  mouse_pos,        \* mouse.pos
  scale,            \* camera.scale
  panicked,         \* the process aborted on a failed bounds check or assert
  ops,              \* number of mutating operations so far
  last              \* the last event handled and, for a frame, what its tick did

vars == <<nodes, objs, alpha, edges, edge_map, dragging, is_ctrl_pressed,
          is_lalt_pressed, mouse_pos, scale, panicked, ops, last>>

NoTick == [drag |-> <<"None", 0>>, pre |-> << >>, mid |-> << >>,
           post |-> << >>, rlog |-> << >>, slog |-> << >>,
           nodes_pre |-> << >>, edges_pre |-> << >>]
\* what last holds after State::new and after an event other than a frame
NoFrame == [ev |-> "input", tick |-> NoTick]

\* State::new: no nodes, no edges, Physics::new over the empty collection
Init ==
  /\ nodes = << >>
  /\ objs = Physics_new(<< >>)
  /\ alpha = One
  /\ edges = << >>
  /\ edge_map = EdgeRenderPass_new(<< >>)
  /\ dragging = DragNone
  /\ is_ctrl_pressed = FALSE
  /\ is_lalt_pressed = FALSE
  /\ mouse_pos = MouseNone
  /\ scale = One
  /\ panicked = FALSE
  /\ ops = 0
  /\ last = NoFrame

\* State::add_node if idx were taken after the push onto nodes
State_add_node_IdxAfterPush(ns, os, node) ==
  LET idx == Len(ns) + 1
  IN  [objs |-> Append(os, Object_from_node(idx, node, DEFAULT_STRENGTH)),
       nodes |-> Append(ns, node)]

\* State::add_node if the node and its object were put in front
State_add_node_InFront(ns, os, node) ==
  LET idx == Len(ns)
  IN  [objs |-> <<Object_from_node(idx, node, DEFAULT_STRENGTH)>> \o os,
       nodes |-> <<node>> \o ns]

\* State::add_node(node): the collections after it
State_add_node(ns, os, node) ==
  LET idx == Len(ns)
  IN  [objs |-> Append(os, Object_from_node(idx, node, DEFAULT_STRENGTH)),
       nodes |-> Append(ns, node)]

\* the vec CursorMoved computes from position
CursorVec[px \in CursorPixels] ==
  <<FSub(FromInt(px[1]), FDiv(FromInt(CAMERA_WIDTH), Two)),
    FMul(FSub(FromInt(px[2]), FDiv(FromInt(CAMERA_HEIGHT), Two)), FromInt(0 - 1))>>

\* WindowEvent::CursorMoved { position }
CursorMoved(px) ==
  /\ ~panicked
  /\ mouse_pos' = MouseSome(CursorVec[px][1], CursorVec[px][2])
  /\ last' = NoFrame
  /\ UNCHANGED <<nodes, objs, alpha, edges, edge_map, dragging, is_ctrl_pressed,
                 is_lalt_pressed, scale, panicked, ops>>

\* WindowEvent::CursorLeft
CursorLeft ==
  /\ ~panicked
  /\ mouse_pos' = MouseNone
  /\ last' = NoFrame
  /\ UNCHANGED <<nodes, objs, alpha, edges, edge_map, dragging, is_ctrl_pressed,
                 is_lalt_pressed, scale, panicked, ops>>

\* the new drag state when LControl goes down
CtrlConverts(drag) == IF drag[1] = "Node" THEN DragEdgeCreation(drag[2]) ELSE drag

\* WindowEvent::KeyboardInput for LControl
KeyLControl(pressed) ==
  /\ ~panicked
  /\ is_ctrl_pressed' = pressed
  /\ dragging' = IF ~pressed THEN DragNone ELSE CtrlConverts(dragging)
  /\ last' = NoFrame
  /\ UNCHANGED <<nodes, objs, alpha, edges, edge_map, is_lalt_pressed,
                 mouse_pos, scale, panicked, ops>>

\* WindowEvent::KeyboardInput for LAlt
KeyLAlt(pressed) ==
  /\ ~panicked
  /\ is_lalt_pressed' = pressed
  /\ last' = NoFrame
  /\ UNCHANGED <<nodes, objs, alpha, edges, edge_map, dragging, is_ctrl_pressed,
                 mouse_pos, scale, panicked, ops>>

\* f32::clamp(min, max)
Clamp(x, lo, hi) == IF FLt(x, lo) THEN lo ELSE IF FGt(x, hi) THEN hi ELSE x

\* WindowEvent::MouseWheel: camera.update_scale(camera.scale + y)
MouseWheel(y) ==
  /\ ~panicked
  /\ ops < MaxOps
  /\ ops' = ops + 1
  /\ scale' = Clamp(FAdd(scale, y), SCALE_MIN, SCALE_MAX)
  /\ last' = NoFrame
  /\ UNCHANGED <<nodes, objs, alpha, edges, edge_map, dragging, is_ctrl_pressed,
                 is_lalt_pressed, mouse_pos, panicked>>

\* the node position if a drag step lifted the node as well
DragMove_LiftsZ(pos, delta, sc) ==
  <<FAdd(pos[1], FMul(FMul(FromInt(delta[1]), Two), FDiv(One, sc))),
    FAdd(pos[2], FMul(FMul(FromInt(0 - delta[2]), Two), FDiv(One, sc))),
    FAdd(pos[3], One)>>

\* the node position after a drag step by delta
DragMove(pos, delta, sc) ==
  <<FAdd(pos[1], FMul(FMul(FromInt(delta[1]), Two), FDiv(One, sc))),
    FAdd(pos[2], FMul(FMul(FromInt(0 - delta[2]), Two), FDiv(One, sc))),
    pos[3]>>

\* DeviceEvent::MouseMotion { delta }
MouseMotion(delta) ==
  /\ ~panicked
  /\ IF dragging[1] = "Node" THEN
       /\ ops < MaxOps
       /\ ops' = ops + 1
       /\ IF ~InRange(nodes, dragging[2]) \/ ~InRange(objs, dragging[2])
          THEN /\ panicked' = TRUE
               /\ UNCHANGED <<nodes, objs>>
          ELSE \E p \in {DragMove(At(nodes, dragging[2]).position, delta, scale)} :
                 /\ nodes' = [nodes EXCEPT ![dragging[2] + 1].position = p]
                 /\ objs' = [objs EXCEPT ![dragging[2] + 1].x = p[1],
                                         ![dragging[2] + 1].y = p[2]]
                 /\ UNCHANGED panicked
     ELSE UNCHANGED <<nodes, objs, panicked, ops>>
  /\ last' = NoFrame
  /\ UNCHANGED <<alpha, edges, edge_map, dragging, is_ctrl_pressed,
                 is_lalt_pressed, mouse_pos, scale>>

\* let pos = pos / self.camera.scale; let pos3 = pos.extend(0.0)
WorldPos(mp, sc) == <<FDiv(mp.x, sc), FDiv(mp.y, sc), Zero>>

\* the drag a press would start if it named the node after the one hit
PressDrag_NextNode(ctrl, i) == IF ctrl THEN DragEdgeCreation(i + 1) ELSE DragNode(i + 1)

\* the drag a press over node i starts
PressDrag(ctrl, i) == IF ctrl THEN DragEdgeCreation(i) ELSE DragNode(i)

\* what the press handler leaves behind: the collections and the drag state
PressOutcome(ns, os, drag) == [nodes |-> ns, objs |-> os, dragging |-> drag]

\* the press over the nodes hits (none when the set is empty)
PressOver(ns, os, drag, ctrl, hits) ==
  PressOutcome(ns, os, IF hits # {} THEN PressDrag(ctrl, SetMin(hits)) ELSE drag)

\* the press with LAlt held: add_node's result r, the drag state as it was
PressAdds(drag, r) == PressOutcome(r.nodes, r.objs, drag)

\* the body of the Pressed arm: nothing without a cursor position; with
\* LAlt held a node at the cursor and return; else a drag of the first node
\* under the cursor, if there is one
ButtonPress(ns, os, drag, mp, lalt, ctrl, sc) ==
  IF ~mp.some THEN PressOutcome(ns, os, drag)
  ELSE IF lalt
       THEN PressAdds(drag, State_add_node(ns, os, Node_new(NODE_SIZE, WorldPos(mp, sc))))
       ELSE PressOver(ns, os, drag, ctrl, Hits(ns, WorldPos(mp, sc)))

\* DeviceEvent::Button { state: Pressed }
ButtonPressed ==
  /\ ~panicked
  /\ \E r \in {ButtonPress(nodes, objs, dragging, mouse_pos, is_lalt_pressed,
                           is_ctrl_pressed, scale)} :
       /\ Len(r.nodes) # Len(nodes) => ops < MaxOps
       /\ ops' = IF Len(r.nodes) # Len(nodes) THEN ops + 1 ELSE ops
       /\ nodes' = r.nodes
       /\ objs' = r.objs
       /\ dragging' = r.dragging
  /\ last' = NoFrame
  /\ UNCHANGED <<alpha, edges, edge_map, is_ctrl_pressed, is_lalt_pressed,
                 mouse_pos, scale, panicked>>

\* the node under the cursor if a release ended a drag of either kind with
\* an edge
ReleaseHits_EitherKind(drag, mp, ns, sc) ==
  IF drag[1] # "None" /\ mp.some THEN Hits(ns, WorldPos(mp, sc)) ELSE {}

\* the node under the cursor at a release that ends an edge creation:
\* the set is empty when no edge is to be made
ReleaseHits(drag, mp, ns, sc) ==
  IF drag[1] = "EdgeCreation" /\ mp.some THEN Hits(ns, WorldPos(mp, sc)) ELSE {}

\* what the release handler leaves behind; ok is FALSE when it aborted on
\* nodes[a as usize]
ReleaseOutcome(es, em, drag, ok) ==
  [edges |-> es, edge_map |-> em, dragging |-> drag, ok |-> ok]

\* the release that appends the edge: add_edge's result r, then
\* set_dragging(None)
ReleaseAdds(r) == ReleaseOutcome(r.edges, r.edge_map, DragNone, TRUE)

\* the release with the nodes hits under the cursor of an edge creation
\* (none when the set is empty)
ReleaseOver(ns, es, em, drag, hits) ==
  IF hits = {} THEN ReleaseOutcome(es, em, DragNone, TRUE)
  ELSE IF ~InRange(ns, drag[2]) THEN ReleaseOutcome(es, em, drag, FALSE)
  ELSE ReleaseAdds(EdgeRenderPass_add_edge(es, em,
                     Edge_from_nodes(At(ns, drag[2]), drag[2],
                                     At(ns, SetMin(hits)), SetMin(hits))))

\* the body of the Released arm
ButtonRelease(ns, es, em, drag, mp, sc) ==
  ReleaseOver(ns, es, em, drag, ReleaseHits(drag, mp, ns, sc))

\* DeviceEvent::Button { state: Released }
ButtonReleased ==
  /\ ~panicked
  /\ \E r \in {ButtonRelease(nodes, edges, edge_map, dragging, mouse_pos, scale)} :
       /\ Len(r.edges) # Len(edges) => ops < MaxOps
       /\ ops' = IF Len(r.edges) # Len(edges) THEN ops + 1 ELSE ops
       /\ edges' = r.edges
       /\ edge_map' = r.edge_map
       /\ dragging' = r.dragging
       /\ panicked' = ~r.ok
  /\ last' = NoFrame
  /\ UNCHANGED <<nodes, objs, alpha, is_ctrl_pressed, is_lalt_pressed,
                 mouse_pos, scale>>

\* the argument if a drag of either kind were passed on
TickDragging_EitherKind(drag) ==
  IF drag[1] = "None" THEN <<"None", 0>> ELSE <<"Some", drag[2]>>

\* the argument State::update passes to tick
TickDragging(drag) == IF drag[1] = "Node" THEN <<"Some", drag[2]>> ELSE <<"None", 0>>

\* what a frame leaves behind, from the result t of tick and a of apply
\* (apply is not reached when tick panicked): the collections at return,
\* whether the process survived, and what the tick did (for last)
UpdateResult(os, ns, es, d, t, a) ==
  [objs |-> t.objs,
   nodes |-> IF t.ok THEN a.nodes ELSE ns,
   edges |-> IF t.ok THEN a.edges ELSE es,
   ok |-> t.ok /\ a.ok,
   tick |-> [drag |-> d, pre |-> os, mid |-> t.mid, post |-> t.objs,
             rlog |-> t.rlog, slog |-> t.slog,
             nodes_pre |-> ns, edges_pre |-> es]]

\* self.physics.apply(..) on what tick left
UpdateApply(os, ns, es, em, d, t) ==
  UpdateResult(os, ns, es, d, t, Physics_apply(t.objs, ns, es, em))

\* State::update: tick, then apply
State_update(os, a, ns, es, em, drag) ==
  UpdateApply(os, ns, es, em, TickDragging(drag),
              Physics_tick(os, a, TickDragging(drag), es, em))

\* Event::RedrawRequested: State::update
Update ==
  /\ ~panicked
  /\ ops < MaxOps
  /\ ops' = ops + 1
  /\ alpha' = TickAlpha(alpha)
  /\ \E u \in {State_update(objs, alpha, nodes, edges, edge_map, dragging)} :
       /\ objs' = u.objs
       /\ nodes' = u.nodes
       /\ edges' = u.edges
       /\ panicked' = ~u.ok
       /\ last' = [ev |-> "update", tick |-> u.tick]
  /\ UNCHANGED <<edge_map, dragging, is_ctrl_pressed, is_lalt_pressed,
                 mouse_pos, scale>>

Next ==
  \/ \E px \in CursorPixels : CursorMoved(px)
  \/ CursorLeft
  \/ \E pressed \in BOOLEAN : KeyLControl(pressed)
  \/ \E pressed \in BOOLEAN : KeyLAlt(pressed)
  \/ \E y \in WheelDeltas : MouseWheel(y)
  \/ \E delta \in MotionDeltas : MouseMotion(delta)
  \/ ButtonPressed
  \/ ButtonReleased
  \/ Update

Spec == Init /\ [][Next]_vars

----------------------------------------------------------------------------
(* TickSpec: State::update as a function of the store.  The store is drawn *)
(* from positions a session can produce (cursor clicks and drags put a     *)
(* node anywhere in the plane z = 0; a NaN position is what a frame leaves *)
(* behind for a node created on top of another), with any edges between    *)
(* existing nodes, self-loops and repeats included, and any dragged node.  *)

TickPositions ==
  {<<FromInt(0), FromInt(0), Zero>>,
   <<FromInt(100), FromInt(0), Zero>>,
   <<FromInt(0 - 400), FromInt(0), Zero>>,
   <<FromInt(0), FromInt(450), Zero>>}

\* the position of a node that has lost it (a tick leaves two coincident
\* nodes so)
NaNPosition == <<NaN, NaN, NaN>>

SeqsUpTo(S, k) == UNION {[1..m -> S] : m \in 0..k}

\* two nodes far apart: a click lands at cursor / scale, and the scale goes
\* down to 0.01 (a cursor 150 pixels off centre is 15000 away), and a drag
\* moves a node by delta * 2 / scale per motion event.
FarSeparations == {FromInt(1000), FromInt(15000)}

FarStores == {<<<<Zero, Zero, Zero>>, <<d, Zero, Zero>>>> : d \in FarSeparations}

\* stores with such nodes, beside nodes at the origin: what an evaluation
\* against a NaN node does is the same wherever the other node is
NaNStores ==
  {ps \in SeqsUpTo({<<Zero, Zero, Zero>>, NaNPosition}, TickMaxNodes) :
     \E i \in DOMAIN ps : ps[i] = NaNPosition}

\* the node positions of the stores State::update is called on
TickStores == SeqsUpTo(TickPositions, TickMaxNodes) \cup NaNStores \cup FarStores

\* the lists of at most k edges (pairs of ends) over n nodes.  Two lists
\* that differ only in the order of their edges number the edges
\* differently and are otherwise the same store: one of them is drawn, the
\* one in ascending order of (a_id, b_id).
EdgeEnds(n, k) ==
  {ends \in SeqsUpTo((0..(n - 1)) \X (0..(n - 1)), k) :
     \A e \in 1..(Len(ends) - 1) :
       \/ ends[e][1] < ends[e + 1][1]
       \/ (ends[e][1] = ends[e + 1][1] /\ ends[e][2] <= ends[e + 1][2])}

TickInit ==
  /\ \E ps \in TickStores :
       /\ nodes = [i \in 1..Len(ps) |-> Node_new(NODE_SIZE, ps[i])]
       /\ objs = Physics_new([i \in 1..Len(ps) |-> Node_new(NODE_SIZE, ps[i])])
       /\ \E ends \in EdgeEnds(Len(ps), TickMaxEdges) :
            LET es == [k \in 1..Len(ends) |->
                         Edge_from_nodes(Node_new(NODE_SIZE, ps[ends[k][1] + 1]), ends[k][1],
                                         Node_new(NODE_SIZE, ps[ends[k][2] + 1]), ends[k][2])]
            IN  /\ edges = es
                /\ edge_map = EdgeRenderPass_new(es)
       /\ dragging \in {DragNone} \cup {DragNode(k) : k \in 0..(Len(ps) - 1)}
  /\ alpha = One
  /\ is_ctrl_pressed = FALSE
  /\ is_lalt_pressed = FALSE
  /\ mouse_pos = MouseNone
  /\ scale = One
  /\ panicked = FALSE
  /\ ops = 0
  /\ last = NoFrame

TickUpdate == ops < TickMaxFrames /\ Update

TickNext == TickUpdate

TickSpec == TickInit /\ [][TickNext]_vars

----------------------------------------------------------------------------
(* ApplySpec: Physics::apply as the public function it is, called with any *)
(* node slice: `nodes` is an argument, and only State::update passes the   *)
(* collection the objects were made from.  The objects and the nodes are   *)
(* drawn independently, in number and in position; the edges join the      *)
(* nodes and the adjacency index is the one EdgeRenderPass::new builds.    *)

ApplyPositions ==
  {<<FromInt(0), FromInt(0), Zero>>,
   <<FromInt(100), FromInt(0), Zero>>,
   <<FromInt(0), FromInt(450), Zero>>}

ApplyInit ==
  /\ \E qs \in SeqsUpTo(ApplyPositions, ApplyMaxNodes) :
       objs = Physics_new([i \in 1..Len(qs) |-> Node_new(NODE_SIZE, qs[i])])
  /\ \E ps \in SeqsUpTo(ApplyPositions, ApplyMaxNodes) :
       /\ nodes = [i \in 1..Len(ps) |-> Node_new(NODE_SIZE, ps[i])]
       /\ \E ends \in EdgeEnds(Len(ps), ApplyMaxEdges) :
            LET es == [k \in 1..Len(ends) |->
                         Edge_from_nodes(Node_new(NODE_SIZE, ps[ends[k][1] + 1]), ends[k][1],
                                         Node_new(NODE_SIZE, ps[ends[k][2] + 1]), ends[k][2])]
            IN  /\ edges = es
                /\ edge_map = EdgeRenderPass_new(es)
  /\ dragging = DragNone
  /\ alpha = One
  /\ is_ctrl_pressed = FALSE
  /\ is_lalt_pressed = FALSE
  /\ mouse_pos = MouseNone
  /\ scale = One
  /\ panicked = FALSE
  /\ ops = 0
  /\ last = NoFrame

\* physics.apply(&mut nodes, &mut edges, &edge_map); a failed assertion
\* ends the program
ApplyCall ==
  /\ ~panicked
  /\ ops < ApplyMaxCalls
  /\ ops' = ops + 1
  /\ \E a \in {Physics_apply(objs, nodes, edges, edge_map)} :
       /\ nodes' = a.nodes
       /\ edges' = a.edges
       /\ panicked' = ~a.ok
  /\ last' = [ev |-> "apply", tick |-> NoTick]
  /\ UNCHANGED <<objs, alpha, edge_map, dragging, is_ctrl_pressed,
                 is_lalt_pressed, mouse_pos, scale>>

ApplyNext == ApplyCall

ApplySpec == ApplyInit /\ [][ApplyNext]_vars

----------------------------------------------------------------------------
(* TickCallSpec: Physics::tick as the public function it is, called with   *)
(* any edge slice and adjacency index: `edges` and `edge_map` are          *)
(* arguments, and only State::update passes those of the collection the    *)
(* objects were made from.  The edges are drawn with end ids up to one     *)
(* past the last object, so an end may name no object; the index is the    *)
(* one EdgeRenderPass::new builds from them.                               *)

\* an Edge value with ends a_id and b_id, as a caller may make it
Edge_with_ids(a_id, b_id) ==
  [a_id |-> a_id, b_id |-> b_id,
   a_center |-> <<Zero, Zero, Zero>>, b_center |-> <<Zero, Zero, Zero>>]

\* the end ids a caller's edges are drawn from: those of the n objects, one
\* past them, and the largest u32
CallIds(n) == (0..n) \cup {U32_MAX}

\* the lists of at most k edges with end ids in CallIds(n), in ascending
\* order
CallEdgeEnds(n, k) ==
  {ends \in SeqsUpTo(CallIds(n) \X CallIds(n), k) :
     \A e \in 1..(Len(ends) - 1) :
       \/ ends[e][1] < ends[e + 1][1]
       \/ (ends[e][1] = ends[e + 1][1] /\ ends[e][2] <= ends[e + 1][2])}

TickCallInit ==
  /\ \E ps \in SeqsUpTo(ApplyPositions, CallMaxNodes) :
       /\ nodes = [i \in 1..Len(ps) |-> Node_new(NODE_SIZE, ps[i])]
       /\ objs = Physics_new([i \in 1..Len(ps) |-> Node_new(NODE_SIZE, ps[i])])
       /\ \E ends \in CallEdgeEnds(Len(ps), CallMaxEdges) :
            /\ edges = [k \in 1..Len(ends) |-> Edge_with_ids(ends[k][1], ends[k][2])]
            /\ edge_map = EdgeRenderPass_new(
                             [k \in 1..Len(ends) |-> Edge_with_ids(ends[k][1], ends[k][2])])
       /\ dragging \in {DragNone} \cup {DragNode(k) : k \in 0..(Len(ps) - 1)}
  /\ alpha = One
  /\ is_ctrl_pressed = FALSE
  /\ is_lalt_pressed = FALSE
  /\ mouse_pos = MouseNone
  /\ scale = One
  /\ panicked = FALSE
  /\ ops = 0
  /\ last = NoFrame

\* what last holds after a call of tick with result t
TickCallRecord(os, ns, es, d, t) ==
  [ev |-> "tick",
   tick |-> [drag |-> d, pre |-> os, mid |-> t.mid, post |-> t.objs,
             rlog |-> t.rlog, slog |-> t.slog, nodes_pre |-> ns, edges_pre |-> es]]

\* physics.tick(dragging, &edges, &edge_map); a failed bounds check ends
\* the program
TickCall ==
  /\ ~panicked
  /\ ops < CallMaxTicks
  /\ ops' = ops + 1
  /\ alpha' = TickAlpha(alpha)
  /\ \E t \in {Physics_tick(objs, alpha, TickDragging(dragging), edges, edge_map)} :
       /\ objs' = t.objs
       /\ panicked' = ~t.ok
       /\ last' = TickCallRecord(objs, nodes, edges, TickDragging(dragging), t)
  /\ UNCHANGED <<nodes, edges, edge_map, dragging, is_ctrl_pressed,
                 is_lalt_pressed, mouse_pos, scale>>

TickCallNext == TickCall

TickCallSpec == TickCallInit /\ [][TickCallNext]_vars

----------------------------------------------------------------------------
(* Properties.  After a frame, last.tick holds the store before the tick   *)
(* (pre), between the two loops (mid) and at return (post), the dragging   *)
(* argument (drag) and one entry per evaluated pair (rlog) and per visit   *)
(* of a node and an incident edge (slog).                                  *)

\* a frame has just run
FrameRan == last.ev = "update"
\* a frame has just run with node k as the dragging argument of its tick
DraggedIn(k) ==
  /\ FrameRan
  /\ last.tick.drag = <<"Some", k>>
  /\ InRange(last.tick.pre, k)

\* edge number id is entered in the adjacency index under both its ends
Registered(em, id, edge) ==
  /\ edge.a_id \in DOMAIN em
  /\ edge.b_id \in DOMAIN em
  /\ \E c \in DOMAIN em[edge.a_id] : em[edge.a_id][c] = id
  /\ \E c \in DOMAIN em[edge.b_id] : em[edge.b_id][c] = id

\* the position the repulsion formula gives an object at p for another of
\* the default strength at q, alpha = 1.0
PairOutcome(p, q) ==
  ObjPos(At(RepulsePair(<<[i |-> 0, x |-> p[1], y |-> p[2], z |-> p[3],
                           strength |-> DEFAULT_STRENGTH],
                          [i |-> 1, x |-> q[1], y |-> q[2], z |-> q[3],
                           strength |-> DEFAULT_STRENGTH]>>, One, 0, 1), 0))

\* C1: in every reachable state (after Physics::new and after any sequence
\* of add_node, drag motion, tick and apply) the position store is as long
\* as the node collection and every object's id is its own index.
C1_IndexAlignment ==
  /\ Len(objs) = Len(nodes)
  /\ \A i \in 0..(Len(objs) - 1) : At(objs, i).i = i

\* two nodes were added, one is being dragged and a frame moved the other
C1_Witness ==
  /\ Len(nodes) = 2
  /\ FrameRan /\ ~panicked
  /\ last.tick.drag[1] = "Some"
  /\ last.tick.post # last.tick.pre

\* C2: after Physics::apply has returned (the lengths agreed), every node's
\* position is, component by component, the very value its object holds.
C2_ApplySync ==
  (FrameRan /\ ~panicked) =>
    /\ Len(nodes) = Len(objs)
    /\ \A i \in 0..(Len(nodes) - 1) : At(nodes, i).position = ObjPos(At(objs, i))

\* the tick moved a node in x and in y, and apply carried both over
C2_Witness ==
  /\ FrameRan /\ ~panicked
  /\ \E i \in 0..(Len(nodes) - 1) :
       /\ VecFinite(At(nodes, i).position)
       /\ At(nodes, i).position[1] # At(last.tick.nodes_pre, i).position[1]
       /\ At(nodes, i).position[2] # At(last.tick.nodes_pre, i).position[2]
       /\ At(nodes, i).position = ObjPos(At(objs, i))

\* C3: after Physics::apply has returned, every edge entered in the
\* adjacency index, self-loops included, has a_center at the position of
\* node a_id and b_center at the position of node b_id.
C3_EdgeCentersSync ==
  (FrameRan /\ ~panicked) =>
    \A id \in 0..(Len(edges) - 1) :
      Registered(edge_map, id, At(edges, id)) =>
        /\ At(edges, id).a_center = At(nodes, At(edges, id).a_id).position
        /\ At(edges, id).b_center = At(nodes, At(edges, id).b_id).position

\* C4: a tick called with dragging == Some(k) leaves x, y and z of object
\* k as they were, after the repulsion loop and after the spring loop.
C4_DragExclusion ==
  \A k \in 0..(Len(last.tick.pre) - 1) :
    DraggedIn(k) =>
      /\ At(last.tick.mid, k) = At(last.tick.pre, k)
      /\ At(last.tick.post, k) = At(last.tick.pre, k)

\* the dragged node k lay within MAX_DIST of another node, which repulsion
\* moved, and had an edge longer than MIN_DIST to a node the spring moved
C4_Witness ==
  \E k \in 0..(Len(last.tick.pre) - 1) :
    /\ DraggedIn(k)
    /\ \E n \in DOMAIN last.tick.rlog :
         /\ last.tick.rlog[n].j = k
         /\ last.tick.rlog[n].post # last.tick.rlog[n].pre
    /\ \E n \in DOMAIN last.tick.slog :
         /\ last.tick.slog[n].other_node = k
         /\ last.tick.slog[n].post # last.tick.slog[n].pre

\* b lies from a on the side of o, or is a (one coordinate)
CompToward(a, b, o) ==
  \/ b = a
  \/ (FLt(a, b) /\ FLt(a, o))
  \/ (FLt(b, a) /\ FLt(o, a))

\* a node found at pre and left at post was displaced toward other: it
\* moved, and in no coordinate away from other
MovedToward(pre, post, other) ==
  /\ post # pre
  /\ \A c \in 1..3 : CompToward(pre[c], post[c], other[c])

\* C5: in a tick called with dragging == Some(k), k is never the moved node
\* of a pair or of a visit, and every other node i evaluates the pair
\* (i, k) once, against k's current position and with the outcome the
\* formula gives for any other node: a node within MAX_DIST of k (and not
\* on top of it) ends farther from k, and a node joined to k by an edge
\* longer than MIN_DIST is visited for that edge and displaced toward k.
C5_DraggedStillActs ==
  \A k \in 0..(Len(last.tick.pre) - 1) :
    DraggedIn(k) =>
      LET t == last.tick
      IN  /\ \A n \in DOMAIN t.rlog : t.rlog[n].i # k
          /\ \A n \in DOMAIN t.slog : t.slog[n].node # k
          /\ \A i \in 0..(Len(t.pre) - 1) :
               i # k =>
                 Cardinality({n \in DOMAIN t.rlog :
                                t.rlog[n].i = i /\ t.rlog[n].j = k}) = 1
          /\ \A n \in DOMAIN t.rlog :
               t.rlog[n].j = k =>
                 /\ t.rlog[n].other = ObjPos(At(t.pre, k))
                 /\ t.rlog[n].post = PairOutcome(t.rlog[n].pre, t.rlog[n].other)
                 /\ (FLt(t.rlog[n].dist, DEFAULT_MAX_DIST) /\ ~IsZero(t.rlog[n].dist))
                      => FGt(Dist(t.rlog[n].post, t.rlog[n].other), t.rlog[n].dist)
          /\ \A id \in 0..(Len(edges) - 1) :
               \A i \in 0..(Len(t.pre) - 1) :
                 (i # k /\ {At(edges, id).a_id, At(edges, id).b_id} = {i, k}) =>
                   \E n \in DOMAIN t.slog :
                     /\ t.slog[n].node = i
                     /\ t.slog[n].edge_id = id
                     /\ t.slog[n].other_node = k
          /\ \A n \in DOMAIN t.slog :
               t.slog[n].other_node = k =>
                 /\ t.slog[n].other = ObjPos(At(t.pre, k))
                 /\ FGt(t.slog[n].dist, DEFAULT_MIN_DIST)
                      => MovedToward(t.slog[n].pre, t.slog[n].post, t.slog[n].other)

\* node k was dragged; another node within MAX_DIST of it was pushed away
\* from it, and a node joined to it at more than MIN_DIST was pulled to it
C5_Witness ==
  \E k \in 0..(Len(last.tick.pre) - 1) :
    /\ DraggedIn(k)
    /\ \E n \in DOMAIN last.tick.rlog :
         /\ last.tick.rlog[n].j = k
         /\ FLt(last.tick.rlog[n].dist, DEFAULT_MAX_DIST)
         /\ FGt(Dist(last.tick.rlog[n].post, last.tick.rlog[n].other),
                last.tick.rlog[n].dist)
    /\ \E n \in DOMAIN last.tick.slog :
         /\ last.tick.slog[n].other_node = k
         /\ FGt(last.tick.slog[n].dist, DEFAULT_MIN_DIST)
         /\ FLt(Dist(last.tick.slog[n].post, last.tick.slog[n].other),
                last.tick.slog[n].dist)

\* C6: a pair evaluated at distance exactly 0 is a skip (the moved node
\* keeps its position), in the repulsion loop and in the spring loop, and
\* after the tick neither node of such a pair has a NaN or infinite
\* coordinate.
C6_DegeneracyGuard ==
  FrameRan =>
    /\ \A n \in DOMAIN last.tick.rlog :
         IsZero(last.tick.rlog[n].dist) =>
           /\ last.tick.rlog[n].post = last.tick.rlog[n].pre
           /\ VecFinite(ObjPos(At(last.tick.post, last.tick.rlog[n].i)))
           /\ VecFinite(ObjPos(At(last.tick.post, last.tick.rlog[n].j)))
    /\ \A n \in DOMAIN last.tick.slog :
         IsZero(last.tick.slog[n].dist) =>
           /\ last.tick.slog[n].post = last.tick.slog[n].pre
           /\ VecFinite(ObjPos(At(last.tick.post, last.tick.slog[n].node)))
           /\ VecFinite(ObjPos(At(last.tick.post, last.tick.slog[n].other_node)))

\* an evaluation (a pair or a visit, e its log entry) of a NaN-free node
\* against a NaN-free other, at a distance that is a number, that left a
\* NaN in the node: the arithmetic of the evaluation made it (a division by
\* a distance of 0, or an overflow)
NaNMadeHere(e) ==
  /\ ~VecHasNaN(e.pre) /\ ~VecHasNaN(e.other) /\ ~IsNaN(e.dist)
  /\ VecHasNaN(e.post)

\* C7: a pair or a visit whose distance is NaN is skipped.  An object with
\* a NaN coordinate therefore moves no other object (every evaluation
\* against it leaves the moved node where it was), a NaN that a tick puts
\* into an object never comes from a NaN neighbour (it is made by an
\* evaluation against a NaN-free object at a distance that is a number),
\* and the frame is not aborted.
C7_NaNSkipped ==
  FrameRan =>
    LET t == last.tick
    IN  /\ \A n \in DOMAIN t.rlog :
             (IsNaN(t.rlog[n].dist) \/ VecHasNaN(t.rlog[n].other)
                \/ VecHasNaN(t.rlog[n].pre))
               => t.rlog[n].post = t.rlog[n].pre
        /\ \A n \in DOMAIN t.slog :
             (IsNaN(t.slog[n].dist) \/ VecHasNaN(t.slog[n].other)
                \/ VecHasNaN(t.slog[n].pre))
               => t.slog[n].post = t.slog[n].pre
        /\ \A i \in 0..(Len(t.pre) - 1) :
             (VecHasNaN(ObjPos(At(t.post, i))) /\ ~VecHasNaN(ObjPos(At(t.pre, i))))
               => \/ \E n \in DOMAIN t.rlog :
                       /\ t.rlog[n].i = i
                       /\ NaNMadeHere(t.rlog[n])
                  \/ \E n \in DOMAIN t.slog :
                       /\ t.slog[n].node = i
                       /\ NaNMadeHere(t.slog[n])
        /\ (\E i \in 0..(Len(t.pre) - 1) : VecHasNaN(ObjPos(At(t.pre, i))))
             => ~panicked

\* a store with a NaN object joined by an edge to a sound one: the pair and
\* the visit of the sound node against it were evaluated at a NaN distance
\* and the sound node is sound after the tick
C7_Witness ==
  /\ FrameRan /\ ~panicked
  /\ \E n \in DOMAIN last.tick.rlog :
       /\ IsNaN(last.tick.rlog[n].dist)
       /\ VecFinite(last.tick.rlog[n].pre)
       /\ VecFinite(ObjPos(At(last.tick.post, last.tick.rlog[n].i)))
  /\ \E n \in DOMAIN last.tick.slog :
       /\ IsNaN(last.tick.slog[n].dist)
       /\ VecFinite(last.tick.slog[n].pre)

\* C8: a pair (i, j) evaluated at a distance >= MAX_DIST leaves i where it
\* was; two nodes alone in the store at a separation >= MAX_DIST both have
\* their coordinates unchanged after the repulsion loop.
C8_RepulsionCutoff ==
  FrameRan =>
    LET t == last.tick
    IN  /\ \A n \in DOMAIN t.rlog :
             FGe(t.rlog[n].dist, DEFAULT_MAX_DIST) => t.rlog[n].post = t.rlog[n].pre
        /\ (/\ Len(t.pre) = 2
            /\ FGe(Dist(ObjPos(At(t.pre, 0)), ObjPos(At(t.pre, 1))), DEFAULT_MAX_DIST))
             => t.mid = t.pre

\* two nodes alone at exactly MAX_DIST, both evaluated, neither moved
C8_Witness ==
  /\ FrameRan
  /\ Len(last.tick.pre) = 2
  /\ Len(last.tick.rlog) = 2
  /\ \A n \in DOMAIN last.tick.rlog : last.tick.rlog[n].dist = DEFAULT_MAX_DIST
  /\ last.tick.mid = last.tick.pre

\* every visit of the spring loop found its two ends within MIN_DIST
AllWithinRest(slog) ==
  \A n \in DOMAIN slog : FLe(slog[n].dist, DEFAULT_MIN_DIST)

\* C9: a visit evaluated at a distance <= MIN_DIST leaves the node where it
\* was; when every connected pair is within MIN_DIST the spring loop moves
\* nothing, and running it again on its result moves nothing either.
C9_SpringCutoff ==
  FrameRan =>
    LET t == last.tick
    IN  /\ \A n \in DOMAIN t.slog :
             FLe(t.slog[n].dist, DEFAULT_MIN_DIST) => t.slog[n].post = t.slog[n].pre
        /\ AllWithinRest(t.slog) =>
             /\ t.post = t.mid
             /\ SpringPass(t.post, edges, edge_map, DraggingIndex(t.drag)).objs
                  = t.post

\* two distinct nodes joined by an edge were both visited at a distance
\* above 0 and within MIN_DIST
C9_Witness ==
  /\ FrameRan
  /\ AllWithinRest(last.tick.slog)
  /\ \E n \in DOMAIN last.tick.slog :
       /\ last.tick.slog[n].node = 0
       /\ ~IsZero(last.tick.slog[n].dist)
  /\ \E n \in DOMAIN last.tick.slog :
       /\ last.tick.slog[n].node = 1
       /\ ~IsZero(last.tick.slog[n].dist)

\* a store of two objects, A at x = 0 and B at x = 100, nobody dragged
ScenarioAB(os, drag) ==
  /\ Len(os) = 2
  /\ ObjPos(At(os, 0)) = <<FromInt(0), FromInt(0), Zero>>
  /\ ObjPos(At(os, 1)) = <<FromInt(100), FromInt(0), Zero>>
  /\ drag[1] = "None"

\* x is within one unit in the last place of 100 + 100/101 = 10200/101
NearBx(x) ==
  /\ x[2] = 7 - PREC
  /\ Abs(101 * x[1] - 10200 * Pow2[PREC - 7]) <= 101

\* C10: the repulsion loop evaluates its pairs in ascending order of
\* (i, j) and reads j live: for j < i it reads j's coordinates as the loop
\* has already left them, for j > i as they were before the tick.  From A
\* at x = 0 and B at x = 100 one pass gives A.x = -1.0 and B.x = 100 +
\* 100/101 (to the precision of the numbers), below the 101 a sweep over a
\* snapshot would give; y and z stay 0.
C10_GaussSeidel ==
  FrameRan =>
    LET t == last.tick
    IN  /\ \A n \in DOMAIN t.rlog :
             /\ t.rlog[n].other =
                  ObjPos(At(IF t.rlog[n].j < t.rlog[n].i THEN t.mid ELSE t.pre,
                            t.rlog[n].j))
             /\ \A m \in DOMAIN t.rlog :
                  m < n => \/ t.rlog[m].i < t.rlog[n].i
                           \/ (t.rlog[m].i = t.rlog[n].i /\ t.rlog[m].j < t.rlog[n].j)
        /\ ScenarioAB(t.pre, t.drag) =>
             /\ ObjPos(At(t.mid, 0)) = <<FromInt(0 - 1), FromInt(0), Zero>>
             /\ NearBx(At(t.mid, 1).x)
             /\ FLt(At(t.mid, 1).x, FromInt(101))
             /\ At(t.mid, 1).y = FromInt(0)
             /\ At(t.mid, 1).z = Zero

\* the scenario was run: both pairs evaluated, B against the moved A
C10_Witness ==
  /\ FrameRan
  /\ ScenarioAB(last.tick.pre, last.tick.drag)
  /\ Len(last.tick.rlog) = 2
  /\ last.tick.rlog[2].i = 1
  /\ last.tick.rlog[2].other = <<FromInt(0 - 1), FromInt(0), Zero>>

\* a store of two objects joined by exactly one edge between them, nobody
\* dragged, as the spring loop of the last frame found it (t = last.tick)
JoinedPair(t) ==
  /\ Len(t.mid) = 2
  /\ t.drag[1] = "None"
  /\ Len(t.edges_pre) = 1
  /\ {t.edges_pre[1].a_id, t.edges_pre[1].b_id} = {0, 1}

\* the separation of the two objects of a store
Separation(os) == Dist(ObjPos(At(os, 0)), ObjPos(At(os, 1)))

\* C11: two nodes joined by one edge at separation 1000, neither dragged:
\* the spring loop visits both ends, each visit displaces its node toward
\* the other end and leaves it nearer to it, and the separation after the
\* loop is strictly below 1000.
C11_SpringScenario ==
  (FrameRan /\ JoinedPair(last.tick) /\ Separation(last.tick.mid) = FromInt(1000)) =>
    LET t == last.tick
    IN  /\ Len(t.slog) = 2
        /\ \A n \in DOMAIN t.slog :
             /\ MovedToward(t.slog[n].pre, t.slog[n].post, t.slog[n].other)
             /\ FLt(Dist(t.slog[n].post, t.slog[n].other), t.slog[n].dist)
        /\ FLt(Separation(t.post), FromInt(1000))

\* the scenario was run from (0,0,0) and (1000,0,0): the repulsion loop
\* left both where they were and the spring loop moved both
C11_Witness ==
  /\ FrameRan /\ JoinedPair(last.tick)
  /\ Separation(last.tick.pre) = FromInt(1000)
  /\ last.tick.mid = last.tick.pre
  /\ At(last.tick.post, 0).x = FromInt(10)
  /\ FLt(At(last.tick.post, 1).x, FromInt(1000))

\* no nodes, no objects, no edges and nothing in the adjacency index
EmptyStore(ns, os, es, em) ==
  /\ ns = << >> /\ os = << >> /\ es = << >> /\ DOMAIN em = {}

\* C12: a frame on the empty store (State::new's, before any node is added)
\* completes: tick evaluates no pair and no visit, apply passes its
\* assertion, nothing panics, and nodes, objs, edges and the adjacency
\* index are the empty ones they were.
C12_EmptyStore ==
  [][(EmptyStore(nodes, objs, edges, edge_map) /\ ~panicked /\ last'.ev = "update") =>
       /\ ~panicked'
       /\ last'.tick.rlog = << >> /\ last'.tick.slog = << >>
       /\ EmptyStore(nodes', objs', edges', edge_map')
       /\ <<nodes', objs', edges', edge_map'>> = <<nodes, objs, edges, edge_map>>]_vars

\* a frame has run on the empty store and the program goes on
C12_Witness ==
  /\ FrameRan /\ ~panicked
  /\ last.tick.pre = << >> /\ last.tick.nodes_pre = << >> /\ last.tick.edges_pre = << >>
  /\ EmptyStore(nodes, objs, edges, edge_map)

\* C13: Physics::apply called with a node slice of another length than the
\* object store fails its assertion with no node position and no edge
\* center written; called with one of the same length it returns.
C13_ApplyPrecondition ==
  [][last'.ev = "apply" =>
       /\ Len(nodes) # Len(objs) =>
            /\ panicked'
            /\ nodes' = nodes
            /\ edges' = edges
       /\ Len(nodes) = Len(objs) => ~panicked']_vars

\* apply was refused on two nodes with an edge, for one object that is not
\* where node 0 is
C13_Witness ==
  /\ last.ev = "apply" /\ panicked
  /\ Len(nodes) = 2 /\ Len(objs) = 1 /\ Len(edges) = 1
  /\ At(nodes, 0).position # ObjPos(At(objs, 0))


\* C14: the adjacency index, as EdgeRenderPass::new builds it and as every
\* added edge leaves it: each id in it is an index of the edge collection,
\* each edge's index is entered under its a_id and under its b_id, and
\* within an entry the ids are in the order the edges were created
\* (ascending, an edge from a node to itself being entered twice).
C14_AdjacencyIndex ==
  /\ \A key \in DOMAIN edge_map :
       /\ \A c \in DOMAIN edge_map[key] : InRange(edges, edge_map[key][c])
       /\ \A c \in DOMAIN edge_map[key] : \A b \in DOMAIN edge_map[key] :
            b < c => edge_map[key][b] <= edge_map[key][c]
  /\ \A k \in 0..(Len(edges) - 1) : Registered(edge_map, k, At(edges, k))

\* two edges were added between two nodes, and both nodes' entries hold
\* both ids
C14_Witness ==
  /\ Len(edges) = 2
  /\ At(edges, 1).a_id # At(edges, 1).b_id
  /\ edge_map[At(edges, 1).a_id] = <<0, 1>>
  /\ edge_map[At(edges, 1).b_id] = <<0, 1>>

\* C15: alpha is 1.0 in every state (Physics::new sets it, every tick sets
\* it again before its first use), and every pair the repulsion loop
\* evaluates within the cutoff is displaced by the formula at alpha = 1.0,
\* in the first frame as in any later one.
C15_NoCooling ==
  /\ alpha = One
  /\ FrameRan =>
       \A n \in DOMAIN last.tick.rlog :
         LET e == last.tick.rlog[n]
         IN  e.post = IF RepulsionSkips(e.dist) THEN e.pre
                      ELSE PairOutcome(e.pre, e.other)

\* a later frame: it started from what a frame had made of two nodes
\* clicked at x = 0 and x = 100, and moved node 0 again
C15_Witness ==
  /\ FrameRan /\ Len(last.tick.pre) = 2
  /\ At(last.tick.pre, 0).x = FromInt(0 - 1)
  /\ Len(last.tick.rlog) = 2
  /\ last.tick.rlog[1].post # last.tick.rlog[1].pre
  /\ VecFinite(last.tick.rlog[1].post)

\* C16: a step that is not a frame (whose apply is the sync pass) leaves the
\* position of every existing node as it was: adding a node or an edge,
\* starting or ending a drag, and a drag motion write no Node.position.
C16_PositionOnlyByApply ==
  [][last'.ev # "update" =>
       \A i \in DOMAIN nodes :
         i \in DOMAIN nodes' /\ nodes'[i].position = nodes[i].position]_vars

\* values self.alpha could hold when tick is called
AlphaValues == {Zero, NaN}

\* the edges with other endpoint caches (every center at the origin)
OtherCenters(es) ==
  [k \in DOMAIN es |-> [es[k] EXCEPT !.a_center = <<Zero, Zero, Zero>>,
                                     !.b_center = <<Zero, Zero, Zero>>]]

\* what the tick of the last frame returned and did, as Physics_tick
\* gives it
TickRecorded ==
  [objs |-> last.tick.post, mid |-> last.tick.mid, rlog |-> last.tick.rlog,
   slog |-> last.tick.slog, ok |-> TRUE]

\* C17: the objects a frame's tick leaves are a function of the objects it
\* started from, the edges' end ids, the adjacency index and the dragging
\* id: tick run again from these gives the same objects, the same
\* intermediate objects and the same pairs and visits, whatever alpha held
\* before and whatever the edges' endpoint caches are; nodes and input
\* state are not among its arguments.
C17_TickPure ==
  (FrameRan /\ ~panicked) =>
    \A a \in AlphaValues :
      Physics_tick(last.tick.pre, a, last.tick.drag,
                   OtherCenters(last.tick.edges_pre), edge_map) = TickRecorded

\* a frame on two nodes and an edge whose endpoint caches are not at the
\* origin, in a session where alpha, the input state and the caches have a
\* history: the repulsion loop moved the objects and the spring loop
\* visited both ends
C17_Witness ==
  /\ FrameRan /\ ~panicked
  /\ last.tick.mid # last.tick.pre
  /\ Len(last.tick.slog) = 2
  /\ OtherCenters(last.tick.edges_pre) # last.tick.edges_pre

\* C18: a frame is one step made of the three phases in order, each over
\* the whole store: the repulsion loop runs from the objects the frame
\* found, the spring loop from the objects the whole repulsion loop left,
\* apply from the objects the whole spring loop left; and within that step
\* no node or edge is added, no drag is set and no drag delta is applied:
\* the collections keep their lengths and the adjacency index and the
\* dragging state are those the frame found.
C18_FrameOrder ==
  [][last'.ev = "update" =>
       LET t == last'.tick
           d == DraggingIndex(t.drag)
           rep == RepulsionPass(objs, One, d)
           spr == SpringPass(t.mid, edges, edge_map, d)
           app == Physics_apply(t.post, nodes, edges, edge_map)
       IN  /\ t.pre = objs /\ t.nodes_pre = nodes /\ t.edges_pre = edges
           /\ t.drag = TickDragging(dragging)
           /\ t.mid = rep.objs /\ t.rlog = rep.log
           /\ t.post = spr.objs /\ t.slog = spr.log
           /\ objs' = t.post
           /\ ~panicked' => (nodes' = app.nodes /\ edges' = app.edges)
           /\ Len(nodes') = Len(nodes) /\ Len(edges') = Len(edges)
           /\ edge_map' = edge_map /\ dragging' = dragging]_vars

\* a frame after two nodes and an edge were added: the repulsion loop moved
\* the objects, the spring loop visited both ends, apply moved the nodes
C18_Witness ==
  /\ FrameRan /\ ~panicked
  /\ Len(last.tick.rlog) = 2 /\ Len(last.tick.slog) = 2
  /\ last.tick.mid # last.tick.pre
  /\ nodes # last.tick.nodes_pre
  /\ \A i \in 0..(Len(nodes) - 1) : At(nodes, i).position = ObjPos(At(last.tick.post, i))

\* C19: every edge in the collection, from the release that appended it on,
\* has a_id and b_id that are indices of existing nodes; so has the node an
\* edge creation in progress started from.
C19_EdgeIdsValid ==
  /\ \A k \in 0..(Len(edges) - 1) :
       /\ InRange(nodes, At(edges, k).a_id)
       /\ InRange(nodes, At(edges, k).b_id)
  /\ dragging[1] = "EdgeCreation" => InRange(nodes, dragging[2])

\* an edge was drawn from node 1 to node 0 and a frame has run since
C19_Witness ==
  /\ FrameRan /\ ~panicked
  /\ Len(nodes) = 2 /\ Len(edges) = 1
  /\ At(edges, 0).a_id = 1 /\ At(edges, 0).b_id = 0

\* C20: two nodes joined by one edge, neither dragged, at any separation
\* above MIN_DIST when the spring loop starts: each visit displaces its
\* node toward the other end, and the separation after the loop is strictly
\* below the separation before it.
C20_AttractionPullsTogether ==
  (FrameRan /\ JoinedPair(last.tick)
     /\ FGt(Separation(last.tick.mid), DEFAULT_MIN_DIST)) =>
    LET t == last.tick
    IN  /\ Len(t.slog) = 2
        /\ \A n \in DOMAIN t.slog :
             MovedToward(t.slog[n].pre, t.slog[n].post, t.slog[n].other)
        /\ FLt(Separation(t.post), Separation(t.mid))

\* |x| and the larger of two numbers
FAbsF(x) == IF FLt(x, Zero) THEN FNeg(x) ELSE x
FMaxF(a, b) == IF FLt(a, b) THEN b ELSE a

\* the largest coordinate of a position, in absolute value
Size(v) == FMaxF(FAbsF(v[1]), FMaxF(FAbsF(v[2]), FAbsF(v[3])))

\* a few units in the last place of 1.0
RelEps == FDiv(One, FromInt(Pow2[PREC - 3]))

\* b lies from a on the side away from o, or is a where o is level with a
\* (one coordinate)
CompAway(a, b, o) ==
  \/ (b = a /\ o = a)
  \/ (FLt(a, b) /\ FLt(o, a))
  \/ (FLt(b, a) /\ FLt(a, o))

\* the pair evaluation with log entry e moved its node straight away from
\* the other: in every coordinate away from it, by |strength| / dist in
\* all (100 / dist, to the precision of the coordinates)
PushedAway(e) ==
  /\ \A c \in 1..3 : CompAway(e.pre[c], e.post[c], e.other[c])
  /\ FLe(FAbsF(FSub(Dist(e.post, e.pre), FDiv(FromInt(100), e.dist))),
         FMul(FAdd(Size(e.post), FDiv(FromInt(100), e.dist)), RelEps))
  /\ FGt(Dist(e.post, e.other), e.dist)

\* C21: a pair (i, j) evaluated at a distance 0 < d < MAX_DIST moves i
\* straight away from j by |strength_j| / d; and in a store of two nodes
\* within MAX_DIST of each other, neither dragged, the separation after the
\* repulsion loop is strictly larger than before it.
C21_RepulsionPushesApart ==
  FrameRan =>
    LET t == last.tick
    IN  /\ \A n \in DOMAIN t.rlog :
             (FLt(t.rlog[n].dist, DEFAULT_MAX_DIST) /\ FGt(t.rlog[n].dist, Zero))
               => PushedAway(t.rlog[n])
        /\ (Len(t.pre) = 2 /\ t.drag[1] = "None"
              /\ FLt(Separation(t.pre), DEFAULT_MAX_DIST)
              /\ FGt(Separation(t.pre), Zero))
             => /\ Len(t.rlog) = 2
                /\ FGt(Separation(t.mid), Separation(t.pre))

\* two nodes that differ in x and in y, within MAX_DIST, were both pushed
\* and are farther apart
C21_Witness ==
  /\ FrameRan /\ Len(last.tick.pre) = 2 /\ last.tick.drag[1] = "None"
  /\ Len(last.tick.rlog) = 2
  /\ \A n \in 1..2 :
       /\ last.tick.rlog[n].pre[1] # last.tick.rlog[n].other[1]
       /\ last.tick.rlog[n].pre[2] # last.tick.rlog[n].other[2]
       /\ last.tick.rlog[n].post[1] # last.tick.rlog[n].pre[1]
       /\ last.tick.rlog[n].post[2] # last.tick.rlog[n].pre[2]
  /\ FGt(Separation(last.tick.mid), Separation(last.tick.pre))

\* two object arrays of one length whose objects differ at most in x, y, z
SameButPositions(os, ps) ==
  /\ Len(ps) = Len(os)
  /\ \A i \in DOMAIN os :
       /\ ps[i].i = os[i].i
       /\ ps[i].strength = os[i].strength

\* two edge collections of one length whose edges have the same ends
SameEnds(es, fs) ==
  /\ Len(fs) = Len(es)
  /\ \A k \in DOMAIN es :
       /\ fs[k].a_id = es[k].a_id
       /\ fs[k].b_id = es[k].b_id

\* C22: in a frame, tick changes at most the x, y, z of objects (as many
\* objects after each loop as before, each with its id and strength) and
\* hands apply the nodes and edges the frame found; apply leaves the
\* objects as tick left them and every edge's a_id and b_id as they were;
\* the adjacency index is the same after the frame.
C22_FrameOfTickAndApply ==
  [][last'.ev = "update" =>
       /\ last'.tick.pre = objs
       /\ SameButPositions(objs, last'.tick.mid)
       /\ SameButPositions(objs, last'.tick.post)
       /\ last'.tick.nodes_pre = nodes /\ last'.tick.edges_pre = edges
       /\ ~panicked' =>
            /\ nodes' = Physics_apply(last'.tick.post, nodes, edges, edge_map).nodes
            /\ edges' = Physics_apply(last'.tick.post, nodes, edges, edge_map).edges
       /\ objs' = last'.tick.post
       /\ SameEnds(edges, edges')
       /\ Len(nodes') = Len(nodes)
       /\ edge_map' = edge_map]_vars

\* a frame on two nodes and an edge in which both loops moved an object
\* and apply moved a node and an edge center
C22_Witness ==
  /\ FrameRan /\ ~panicked
  /\ Len(objs) = 2 /\ Len(edges) = 1
  /\ last.tick.mid # last.tick.pre
  /\ last.tick.post # last.tick.mid
  /\ nodes # last.tick.nodes_pre
  /\ edges # last.tick.edges_pre

\* an edge of es has an end that names no object of os
DanglingEnd(os, es) ==
  \E k \in DOMAIN es : ~InRange(os, es[k].a_id) \/ ~InRange(os, es[k].b_id)

\* the adjacency index has a key that names no object of os
DanglingKey(os, em) == \E key \in DOMAIN em : ~InRange(os, key)

\* C23: a call of tick whose adjacency index has a key, or whose edges have
\* an end, that names no object ends in a failed bounds check (the process
\* is aborted, nothing is returned); every visit made before that had its
\* node and its other end among the objects; and a call without such a
\* reference returns.
C23_DanglingIsFatal ==
  [][last'.ev = "tick" =>
       /\ (DanglingKey(objs, edge_map) \/ DanglingEnd(objs, edges)) => panicked'
       /\ \A n \in DOMAIN last'.tick.slog :
            /\ InRange(objs, last'.tick.slog[n].node)
            /\ InRange(objs, last'.tick.slog[n].other_node)
       /\ (~DanglingKey(objs, edge_map) /\ ~DanglingEnd(objs, edges)) => ~panicked']_vars

\* the number of entries of a log that satisfy P
Count(log, P(_)) == Cardinality({n \in DOMAIN log : P(log[n])})

\* the number of visits the adjacency index holds for the dragged node
DraggedVisits(em, d) == IF d \in DOMAIN em THEN Len(em[d]) ELSE 0

\* C24: a frame's tick and apply return, and the tick did each unit of work
\* once: the repulsion loop evaluated every ordered pair (i, j) with
\* i # j and i not dragged exactly once and no other pair, at most
\* n * (n - 1) in all; the spring loop made, for every key that is not
\* dragged, one visit per occurrence of an edge id in its entry and none
\* for the dragged key, 2 * E visits less those of the dragged node.
C24_EachUnitOnce ==
  (FrameRan /\ ~panicked) =>
    LET t == last.tick
        d == DraggingIndex(t.drag)
        n == Len(t.pre)
    IN  /\ \A i \in 0..(n - 1) : \A j \in 0..(n - 1) :
             Count(t.rlog, LAMBDA e : e.i = i /\ e.j = j)
               = IF i # j /\ i # d THEN 1 ELSE 0
        /\ \A k \in DOMAIN t.rlog : InRange(t.pre, t.rlog[k].i) /\ InRange(t.pre, t.rlog[k].j)
        /\ Len(t.rlog) <= n * (n - 1)
        /\ \A node \in DOMAIN edge_map : \A id \in 0..(Len(edges) - 1) :
             Count(t.slog, LAMBDA e : e.node = node /\ e.edge_id = id)
               = IF node = d THEN 0
                 ELSE Cardinality({c \in DOMAIN edge_map[node] : edge_map[node][c] = id})
        /\ \A k \in DOMAIN t.slog : t.slog[k].node \in DOMAIN edge_map
        /\ Len(t.slog) = 2 * Len(edges) - DraggedVisits(edge_map, d)

\* a frame on two nodes joined by an edge, one of them dragged: one pair
\* and one visit, those of the other node
C24_Witness ==
  /\ FrameRan /\ ~panicked
  /\ Len(last.tick.pre) = 2 /\ Len(edges) = 1
  /\ last.tick.drag = <<"Some", 0>>
  /\ edges[1].a_id # edges[1].b_id
  /\ Len(last.tick.rlog) = 1 /\ last.tick.rlog[1].i = 1
  /\ Len(last.tick.slog) = 1 /\ last.tick.slog[1].node = 1

\* C25: the session's collections only grow: over every step (add node,
\* add edge, drag, frame, any other event) objs, nodes and edges are at
\* least as long as before, every object that existed keeps its id and its
\* strength, every edge that existed keeps a_id and b_id, and every object's
\* strength is the default constant.
C25_AppendOnly ==
  [][ /\ Len(objs') >= Len(objs)
      /\ Len(nodes') >= Len(nodes)
      /\ Len(edges') >= Len(edges)
      /\ \A k \in DOMAIN objs :
           objs'[k].i = objs[k].i /\ objs'[k].strength = objs[k].strength
      /\ \A k \in DOMAIN edges :
           edges'[k].a_id = edges[k].a_id /\ edges'[k].b_id = edges[k].b_id
      /\ \A k \in DOMAIN objs' : objs'[k].strength = DEFAULT_STRENGTH ]_vars

\* two nodes were added, an edge joins them, and a frame has moved them
C25_Witness ==
  /\ Len(objs) = 2 /\ Len(nodes) = 2 /\ Len(edges) = 1
  /\ FrameRan /\ ~panicked
  /\ last.tick.pre # last.tick.post
  /\ objs[1].i = 0 /\ objs[2].i = 1
  /\ edges[1].a_id # edges[1].b_id

\* C26: in every state of a session there are as many objects as nodes, and
\* a drag in progress, of either kind, names an existing node; so no handler
\* has aborted, and the node a frame's tick was told is dragged is one of
\* the objects it ran on.
C26_DragIndexValid ==
  /\ Len(nodes) = Len(objs)
  /\ dragging[1] \in {"None", "Node", "EdgeCreation"}
  /\ dragging[1] # "None" => (InRange(nodes, dragging[2]) /\ InRange(objs, dragging[2]))
  /\ ~panicked
  /\ (FrameRan /\ last.tick.drag[1] = "Some") => InRange(last.tick.pre, last.tick.drag[2])

\* the second of two nodes that lie apart is being dragged
C26_Witness ==
  /\ Len(nodes) = 2
  /\ dragging = DragNode(1)
  /\ At(nodes, 0).position # At(nodes, 1).position
  /\ ~panicked


\* every node's position is the value its object holds
NodesAgree(ns, os) ==
  /\ Len(ns) = Len(os)
  /\ \A i \in 0..(Len(ns) - 1) : At(ns, i).position = ObjPos(At(os, i))

\* a step other than a frame that adds no node and changes a node or an object
MovesByHand ==
  /\ last'.ev = "input"
  /\ Len(nodes') = Len(nodes)
  /\ nodes' # nodes \/ objs' # objs

\* the step changed x and y of node k and of object k, to the values a drag
\* step by one of the deltas computes, and nothing else of any node or object
DragStepOf(k) ==
  /\ Len(objs') = Len(objs)
  /\ \A i \in 0..(Len(nodes) - 1) :
       i # k => (At(nodes', i) = At(nodes, i) /\ At(objs', i) = At(objs, i))
  /\ At(nodes', k) = [At(nodes, k) EXCEPT !.position = At(nodes', k).position]
  /\ At(nodes', k).position[3] = At(nodes, k).position[3]
  /\ At(objs', k) = [At(objs, k) EXCEPT !.x = At(nodes', k).position[1],
                                          !.y = At(nodes', k).position[2]]
  /\ \E delta \in MotionDeltas :
       At(nodes', k).position = DragMove(At(nodes, k).position, delta, scale)

\* C27: in every state between events (after construction, after a node was
\* added, after a drag step, after a completed frame) every node's position
\* is the x, y, z of its object; and a step between frames that changes a
\* node or an object without adding one is a drag step on the node Node(k)
\* names: it changes x and y of node k and of object k, to the same values,
\* and no other node or object.
C27_NodesAgreeBetweenFrames ==
  /\ [](~panicked => NodesAgree(nodes, objs))
  /\ [][MovesByHand =>
          /\ dragging[1] = "Node"
          /\ InRange(nodes, dragging[2])
          /\ DragStepOf(dragging[2])]_vars

\* the one node there is was dragged down by a step and is still held
C27_Witness ==
  /\ Len(nodes) = 1 /\ ~panicked
  /\ dragging = DragNode(0)
  /\ last.ev = "input"
  /\ At(nodes, 0).position[2] = FromInt(0 - 100)
  /\ NodesAgree(nodes, objs)

\* the frame's tick left node k out: no pair evaluated for it, no edge
\* visited for it, its object as it was
Pinned(t, k) ==
  /\ \A n \in DOMAIN t.rlog : t.rlog[n].i # k
  /\ \A n \in DOMAIN t.slog : t.slog[n].node # k
  /\ At(t.post, k) = At(t.pre, k)

\* the frame's tick treated node k like any node: a pair evaluated against
\* every other node, a visit for every edge entered under it
Simulated(t, k, em) ==
  /\ \A j \in 0..(Len(t.pre) - 1) :
       j # k => \E n \in DOMAIN t.rlog : t.rlog[n].i = k /\ t.rlog[n].j = j
  /\ k \in DOMAIN em =>
       \A c \in DOMAIN em[k] :
         \E n \in DOMAIN t.slog : t.slog[n].node = k /\ t.slog[n].edge_id = em[k][c]

\* C28: a frame's tick leaves node k out if and only if dragging is
\* Some(Node(k)) at that frame; with dragging None or Some(EdgeCreation(k))
\* tick is told of no dragged node and every node, k included, is simulated
\* like any other.  A Node(k) drag turns into an edge creation only by
\* LControl going down, and into one from the same k; and while no Node
\* drag is in progress no event between frames moves a node or an object.
C28_PinningFollowsDragKind ==
  /\ []((FrameRan /\ ~panicked) =>
         /\ last.tick.drag = IF dragging[1] = "Node" THEN <<"Some", dragging[2]>>
                             ELSE <<"None", 0>>
         /\ \A k \in 0..(Len(last.tick.pre) - 1) :
              IF dragging = DragNode(k)
              THEN Pinned(last.tick, k)
              ELSE /\ Simulated(last.tick, k, edge_map)
                   /\ Len(last.tick.pre) >= 2 => ~Pinned(last.tick, k))
  /\ [][(dragging[1] = "Node" /\ dragging'[1] = "EdgeCreation") =>
          (dragging'[2] = dragging[2] /\ is_ctrl_pressed')]_vars
  /\ [][(dragging[1] # "Node" /\ last'.ev = "input") =>
          \A i \in 0..(Len(nodes) - 1) :
            At(nodes', i) = At(nodes, i) /\ At(objs', i) = At(objs, i)]_vars

\* a frame ran while an edge creation was in progress from the second of
\* two nodes, LControl held: that node was moved by the tick
C28_Witness ==
  /\ FrameRan /\ ~panicked
  /\ Len(last.tick.pre) = 2
  /\ dragging = DragEdgeCreation(1) /\ is_ctrl_pressed
  /\ last.tick.drag = <<"None", 0>>
  /\ VecFinite(ObjPos(At(last.tick.post, 1)))
  /\ At(last.tick.post, 1) # At(last.tick.pre, 1)

\* what a press, and what a release, would leave behind in this state
PressHere ==
  ButtonPress(nodes, objs, dragging, mouse_pos, is_lalt_pressed, is_ctrl_pressed, scale)
ReleaseHere == ButtonRelease(nodes, edges, edge_map, dragging, mouse_pos, scale)

\* the nodes under the cursor
UnderCursor == IF mouse_pos.some THEN Hits(nodes, WorldPos(mouse_pos, scale)) ELSE {}

\* LControl going down turned the Node drag into an edge creation
Converted == dragging[1] = "Node" /\ dragging' = DragEdgeCreation(dragging[2])

\* r, what a release leaves: it returns and leaves no drag; it appends no
\* edge or one, and one only from an edge creation with the cursor over a node
ReleaseEnds(r, under) ==
  /\ r.ok
  /\ r.dragging = DragNone
  /\ Len(r.edges) \in {Len(edges), Len(edges) + 1}
  /\ Len(r.edges) = Len(edges) + 1 => (dragging[1] = "EdgeCreation" /\ under # {})
ReleaseEndsDrag == ReleaseEnds(ReleaseHere, UnderCursor)

\* p, what a press leaves: it starts a drag only with LAlt up and the cursor
\* over the node the drag then names, and then adds nothing
PressStarts(p, under) ==
  p.dragging # dragging =>
    /\ ~is_lalt_pressed
    /\ p.dragging[1] \in {"Node", "EdgeCreation"}
    /\ p.dragging[2] \in under
    /\ p.nodes = nodes /\ p.objs = objs
PressStartsDrag == PressStarts(PressHere, UnderCursor)

\* p adds one node and one object and leaves the drag state as it was
PressAdded(p) ==
  /\ Len(p.nodes) = Len(nodes) + 1
  /\ Len(p.objs) = Len(objs) + 1
  /\ p.dragging = dragging
PressAddsOne == PressAdded(PressHere)

\* a press leaves everything as it was
PressIdle == PressHere = PressOutcome(nodes, objs, dragging)

\* over a step: LControl going up leaves no drag; the drag state passes to
\* a drag by what a press does or by the conversion, and not otherwise;
\* edges are appended by what a release does and nodes by what a press
\* does, and not otherwise
OnlyByPressAndRelease ==
  /\ (is_ctrl_pressed /\ ~is_ctrl_pressed') => dragging' = DragNone
  /\ (dragging' # dragging /\ dragging'[1] # "None" /\ ~Converted) =>
       dragging' = PressHere.dragging
  /\ Len(edges') # Len(edges) => (edges' = ReleaseHere.edges /\ dragging' = DragNone)
  /\ Len(nodes') # Len(nodes) => (nodes' = PressHere.nodes /\ objs' = PressHere.objs)

\* C29 (as stated): after a button release dragging is None, an edge having
\* been made or not (at most one, and only from EdgeCreation with the cursor
\* over a node); after an LControl release dragging is None; a drag starts
\* only on a press over an existing node with LAlt up; and every press with
\* LAlt held adds exactly one node and starts no drag.
C29_DragEndsOnRelease ==
  /\ [](~panicked => (ReleaseEndsDrag /\ PressStartsDrag))
  /\ []((~panicked /\ is_lalt_pressed) => PressAddsOne)
  /\ [][OnlyByPressAndRelease]_vars

\* C29 (amended): as stated, but a press with LAlt held adds its node when
\* the cursor position is known (mouse.pos is Some); with the cursor outside
\* the window, or before it first moved, a press changes nothing.
C29_DragEndsOnRelease_CursorKnown ==
  /\ [](~panicked => (ReleaseEndsDrag /\ PressStartsDrag))
  /\ []((~panicked /\ is_lalt_pressed /\ mouse_pos.some) => PressAddsOne)
  /\ []((~panicked /\ ~mouse_pos.some) => PressIdle)
  /\ [][OnlyByPressAndRelease]_vars

\* a release with LControl still held made an edge between two nodes and
\* ended the drag
C29_Witness ==
  /\ Len(nodes) = 2 /\ Len(edges) = 1
  /\ At(edges, 0).a_id # At(edges, 0).b_id
  /\ dragging = DragNone /\ is_ctrl_pressed
  /\ last.ev = "input" /\ ops = 3 /\ ~panicked

=============================================================================
